---- MODULE Spec2Model ----
(***************************************************************************)
(* RqCore: trigger clock, task scheduler and FastRunner polling loop.      *)
(*                                                                         *)
(* Instants are whole seconds since 2026-01-01 00:00:00 UTC.  A naive      *)
(* local date-time is the number of seconds since 2026-01-01 00:00:00 of   *)
(* the local calendar, so date_naive is a day number and time a second of  *)
(* the day.  Millisecond quantities of the polling loop carry the suffix   *)
(* Ms.                                                                     *)
(***************************************************************************)
EXTENDS Integers, Sequences, FiniteSets, TLC

VARIABLES
    \* ---- TriggerClock: one call of localtimeonly2future_datetime_tz
    tz,               \* argument tz
    now_utc,          \* the value Utc::now() returns inside the call
    target_time_tz,   \* argument target_time_tz (second of the local day)
    future_dt,        \* the returned instant (NotCalled before the return)
    clk_pc,           \* "call" | "returned"
    \* ---- one FastRunner instance and the task run() that owns it
    task,                      \* "Pqp" (FastRunnerPqpTask) | "Ap" (FastRunnerApTask)
    is_manual_user_forcerun,   \* field of the task
    is_simulation,             \* FastRunner.is_simulation
    is_run_today,              \* FastRunner.pqp_is_run_today / ap_is_run_today of the task
    has_trading_ever_started,  \* FastRunner.has_trading_ever_started
    loop_endtime,              \* local of run(), tokio Instant in ms (NoDeadline before it is set)
    clock_ms,                  \* tokio::time::Instant::now(), ms since the run started
    run_pc,                    \* where run() or the caller of the tick function stands
    rqorders,                  \* the orders handed to RoboTrader::place_orders
    place_orders_calls,        \* calls of RoboTrader::place_orders by this FastRunner
    ticks,                     \* calls of fastrunning_loop_*_impl on this FastRunner
    loop_start,                \* clock_ms when loop_endtime was computed
    tick_started_at,           \* clock_ms when the latest tick was entered
    emails,                    \* RqEmail::send_text calls of the run
    tradable_ticks,            \* ticks whose detector result was 1..limit events
    \* ---- RqTaskScheduler and its tasks
    tasks,            \* RqTaskScheduler.tasks, the names in registration order
    next_time,        \* next_time of every task
    sched_now,        \* `now` of the latest loop iteration (NotCalled before the first)
    due_tasks,        \* `due_tasks` of the latest loop iteration
    wake_utc,         \* the instant the scheduler's sleep is over
    inflight,         \* spawned run() futures of every task that have not completed
    late_wakes,       \* iterations that started later than wake_utc
    \* ---- the units the tick function calls
    order_submits,    \* ib_client.order(..).submit() calls made for this FastRunner
    broker,           \* one call of BrokersWatcher::place_orders
    session,          \* the detector state of one FastRunner and its files
    planner,          \* FastRunner::pqp_ap_calculate_dates_and_pv and the position sizing
    pool              \* RQ_BROKERS_WATCHER: the gateways, their locks and the operations on them

clockVars == <<tz, now_utc, target_time_tz, future_dt, clk_pc>>

runVars == <<task, is_manual_user_forcerun, is_simulation, is_run_today,
             has_trading_ever_started, loop_endtime, clock_ms, run_pc, rqorders,
             place_orders_calls, ticks, loop_start, tick_started_at, emails,
             tradable_ticks>>

schedVars == <<tasks, next_time, sched_now, due_tasks, wake_utc, inflight, late_wakes>>

unitVars == <<order_submits, broker, session, planner, pool>>

vars == <<clockVars, runVars, schedVars, unitVars>>

(***************************************************************************)
(* Bounds of the model.                                                    *)
(***************************************************************************)
GridPerHour == 2     \* call instants and target times lie on a grid of 3600/GridPerHour s
WindowHours == 30    \* call instants range over +-WindowHours around each DST transition
MaxBuys == 8         \* buy events a detector call returns at most
MaxSells == 7        \* sell events a detector call returns at most
MaxInflight == 2     \* run() futures of one task in flight at a time
MaxLateWakes == 1    \* scheduler wake-ups that are late
HorizonHours == 30   \* hours of scheduling after the process start
MaxTicks == 3        \* tick calls on one FastRunner

(***************************************************************************)
(* Calendar and the chrono / chrono_tz types.                              *)
(***************************************************************************)
SecPerHour == 60 * 60
SecPerDay == 24 * SecPerHour

\* DateTime::<Utc>::MIN_UTC, the far-past sentinel: below every instant of the model.
MIN_UTC == -1

NotCalled == 0 - 2

\* loop_endtime before run() has computed it
NoDeadline == 0 - 1

\* chrono_tz::US::Eastern in 2026: EST = UTC-5, EDT = UTC-4,
\* EDT from Sunday 2026-03-08 07:00 UTC (02:00 EST -> 03:00 EDT)
\* to Sunday 2026-11-01 06:00 UTC (02:00 EDT -> 01:00 EST).
EstOffset == 0 - 5 * SecPerHour
EdtOffset == 0 - 4 * SecPerHour
SpringForwardUtc == (31 + 28 + 7) * SecPerDay + 7 * SecPerHour
FallBackUtc == (31 + 28 + 31 + 30 + 31 + 30 + 31 + 31 + 30 + 31) * SecPerDay + 6 * SecPerHour

Timezones == {"UTC", "Eastern"}

\* Tz::offset_from_utc_datetime
Offset(z, u) ==
    IF z = "UTC" THEN 0
    ELSE IF u >= SpringForwardUtc /\ u < FallBackUtc THEN EdtOffset ELSE EstOffset

\* DateTime<Utc>::with_timezone(&tz), read as its naive local date-time
with_timezone(z, u) == u + Offset(z, u)

\* DateTime<Tz>::date_naive, DateTime<Tz>::time, NaiveDate::and_time
date_naive(l) == l \div SecPerDay
time(l) == l % SecPerDay
and_time(d, t) == d * SecPerDay + t

\* TimeZone::from_local_datetime: the instants whose local reading is l
\* (LocalResult::None = {}, Single = one instant, Ambiguous = two).
Offsets(z) == IF z = "UTC" THEN {0} ELSE {EstOffset, EdtOffset}

from_local_datetime(z, l) ==
    {u \in {l - o : o \in Offsets(z)} : with_timezone(z, u) = l}

SetMin(S) == CHOOSE x \in S : \A y \in S : x <= y

\* LocalResult::earliest().unwrap_or(MIN_UTC)
earliest_or_min(S) == IF S = {} THEN MIN_UTC ELSE SetMin(S)

\* A plausible variant: today's occurrence is also taken when the local time
\* equals the target (<= instead of <).
future_target_tz_not_strict(z, now, target) ==
    LET now_tz == with_timezone(z, now)
        today_target_tz == and_time(date_naive(now_tz), target)
    IN  IF time(now_tz) <= target
        THEN today_target_tz
        ELSE and_time(date_naive(with_timezone(z, now + SecPerDay)), target)

\* time.rs:7-12: the naive local date-time the function settles on
future_target_tz(z, now, target) ==
    LET now_tz == with_timezone(z, now)
        today_target_tz == and_time(date_naive(now_tz), target)
    IN  IF time(now_tz) < target
        THEN today_target_tz
        ELSE and_time(date_naive(with_timezone(z, now + SecPerDay)), target)

\* A plausible variant: a local time inside the spring-forward gap is resolved
\* by moving it past the gap instead of falling back to MIN_UTC.
localtimeonly2future_datetime_tz_gapshift(z, now, target) ==
    LET l == future_target_tz(z, now, target)
    IN  IF from_local_datetime(z, l) = {}
        THEN SetMin(from_local_datetime(z, l + SecPerHour))
        ELSE SetMin(from_local_datetime(z, l))

\* time.rs:5-17
localtimeonly2future_datetime_tz(z, now, target) ==
    earliest_or_min(from_local_datetime(z, future_target_tz(z, now, target)))

(***************************************************************************)
(* SpecClock: localtimeonly2future_datetime_tz called once, at any instant *)
(* of the grid around the two DST transitions, for any target on the grid. *)
(***************************************************************************)
GridSec == SecPerHour \div GridPerHour
GridSteps == WindowHours * GridPerHour

CallInstants ==
    {SpringForwardUtc + k * GridSec : k \in (0 - GridSteps)..GridSteps}
    \cup {FallBackUtc + k * GridSec : k \in (0 - GridSteps)..GridSteps}

TargetTimes == {k * GridSec : k \in 0..(24 * GridPerHour - 1)}

InitClock ==
    /\ tz \in Timezones
    /\ now_utc \in CallInstants
    /\ target_time_tz \in TargetTimes
    /\ future_dt = NotCalled
    /\ clk_pc = "call"
    /\ task = "Pqp"
    /\ is_manual_user_forcerun = FALSE
    /\ is_simulation = TRUE
    /\ is_run_today = FALSE
    /\ has_trading_ever_started = FALSE
    /\ loop_endtime = NoDeadline
    /\ clock_ms = 0
    /\ run_pc = "idle"
    /\ rqorders = <<>>
    /\ place_orders_calls = 0
    /\ ticks = 0
    /\ loop_start = 0
    /\ tick_started_at = 0
    /\ emails = 0
    /\ tradable_ticks = 0
    /\ tasks = <<>>
    /\ next_time = <<>>
    /\ sched_now = NotCalled
    /\ due_tasks = <<>>
    /\ wake_utc = 0
    /\ inflight = <<>>
    /\ late_wakes = 0
    /\ order_submits = 0
    /\ broker = <<>>
    /\ session = <<>>
    /\ planner = <<>>
    /\ pool = <<>>

CallLocaltimeonly2future ==
    /\ clk_pc = "call"
    /\ future_dt' = localtimeonly2future_datetime_tz(tz, now_utc, target_time_tz)
    /\ clk_pc' = "returned"
    /\ UNCHANGED <<tz, now_utc, target_time_tz>>
    /\ UNCHANGED <<runVars, schedVars, unitVars>>

NextClock == CallLocaltimeonly2future

SpecClock == InitClock /\ [][NextClock]_vars

(***************************************************************************)
(* FastRunner: the tick function fastrunning_loop_pqp_impl /               *)
(* fastrunning_loop_ap_impl.  The detector (get_new_transactions_pqp or   *)
(* _ap) is taken by its result: the events it returns (none as well when   *)
(* the response is classified as an error), or a panic of one of its       *)
(* expect() calls.                                                         *)
(***************************************************************************)
\* FastRunner::new(): loop_sleep_ms_simulation, loop_sleep_ms_realtrading
loop_sleep_ms_simulation == 3750
loop_sleep_ms_realtrading == 0

\* FastRunner::new(): pqp_buy_pv, pqp_sell_pv, ap_buy_pv
pqp_buy_pv_new == 50000
pqp_sell_pv_new == 30000
ap_buy_pv_new == 50000

\* Option<String>::None
None == "None"
\* an Option<f64> holding a price in cents: None, Some(NaN), Some(cents)
NoneF64 == [some |-> FALSE, nan |-> FALSE, cents |-> 0]
NaN == [some |-> TRUE, nan |-> TRUE, cents |-> 0]
SomeF64(c) == [some |-> TRUE, nan |-> FALSE, cents |-> c]

RECURSIVE GCD(_, _)
GCD(a, b) == IF b = 0 THEN a ELSE GCD(b, a % b)

\* an f64 that is the quotient of two non-negative whole numbers, kept exact
\* (the rounding of the division to 53 bits is not modelled)
F64(a) == [num |-> a, den |-> 1]
F64Div(a, b) == [num |-> a \div GCD(a, b), den |-> b \div GCD(a, b)]

\* a TransactionEvent as a detector builds it: order_type, price (the string
\* of the response, None for the analysis pages), pos_market_value: 0.0
TransactionEvent(side, price_str) ==
    [order_type |-> side, price |-> price_str, pos_market_value |-> F64(0)]

\* a Vec<TransactionEvent>: b buys, then s sells
Events(b, s) ==
    [i \in 1..(b + s) |-> TransactionEvent(IF i <= b THEN "Buy" ELSE "Sell", None)]

\* count_order_types
count_order_types(events) ==
    [buy_count  |-> Cardinality({i \in DOMAIN events : events[i].order_type = "Buy"}),
     sell_count |-> Cardinality({i \in DOMAIN events : events[i].order_type = "Sell"})]

\* A plausible variant: each side's capital is divided by the number of all events.
determine_position_market_values_pqp_gyantal_by_total(events, buy_pv, sell_pv) ==
    LET n == Len(events)
    IN  [i \in DOMAIN events |->
            [events[i] EXCEPT !.pos_market_value =
                IF n = 0 THEN F64(0)
                ELSE IF events[i].order_type = "Buy" THEN F64Div(buy_pv, n)
                                                     ELSE F64Div(sell_pv, n)]]

\* fast_runner.rs:415-435
determine_position_market_values_pqp_gyantal(events, buy_pv, sell_pv) ==
    LET c == count_order_types(events)
        buy_pos_mkt_value == IF c.buy_count > 0 THEN F64Div(buy_pv, c.buy_count) ELSE F64(0)
        sell_pos_mkt_value == IF c.sell_count > 0 THEN F64Div(sell_pv, c.sell_count) ELSE F64(0)
    IN  [i \in DOMAIN events |->
            [events[i] EXCEPT !.pos_market_value =
                IF events[i].order_type = "Buy" THEN buy_pos_mkt_value
                                                ELSE sell_pos_mkt_value]]

\* fast_runner.rs:592-606
determine_position_market_values_ap_gyantal(events, buy_pv) ==
    LET c == count_order_types(events)
        buy_pos_mkt_value == IF c.buy_count > 0 THEN F64Div(buy_pv, c.buy_count) ELSE F64(0)
    IN  [i \in DOMAIN events |->
            [events[i] EXCEPT !.pos_market_value =
                IF events[i].order_type = "Buy" THEN buy_pos_mkt_value ELSE F64(0)]]

\* the price strings of the model and what str::parse::<f64>() makes of them,
\* in cents; parse accepts "NaN"
PriceStrings == {"182.50", "0", "NaN", "n/a"}
parse_f64(str) ==
    CASE str = "182.50" -> SomeF64(18250)
      [] str = "0" -> SomeF64(0)
      [] str = "NaN" -> NaN
      [] OTHER -> NoneF64

\* event.price.as_deref().and_then(|s| s.parse::<f64>().ok())
known_last_price_of(price_str) == IF price_str = None THEN NoneF64 ELSE parse_f64(price_str)

\* what get_new_transactions_pqp / get_new_transactions_ap may return:
\* the AP detector only ever builds Buy events
DetectorResults(tk) ==
    IF tk = "Pqp"
    THEN {Events(b, s) : b \in 0..MaxBuys, s \in 0..MaxSells}
    ELSE {Events(b, 0) : b \in 0..MaxBuys}

\* A plausible variant: the limit of the PQP tick is used for both tasks.
MaxExpectedEvents_pqp_for_both(tk) == 14

\* the "Something is wrong" limit of the tick function
MaxExpectedEvents(tk) == IF tk = "Pqp" THEN 14 ELSE 2

\* build_rqorders: one RqOrder per event, in order
build_rqorders(events) ==
    [i \in 1..Len(events) |->
        [order_type |-> events[i].order_type,
         pos_market_value |-> events[i].pos_market_value,
         known_last_price |-> known_last_price_of(events[i].price)]]

\* the sizing step of the tick function (fast_runner.rs:451 / 622); the
\* capital is what FastRunner::new() set, run() does not await init()
SizedEvents(tk, events) ==
    IF tk = "Pqp"
    THEN determine_position_market_values_pqp_gyantal(events, pqp_buy_pv_new, pqp_sell_pv_new)
    ELSE determine_position_market_values_ap_gyantal(events, ap_buy_pv_new)

(***************************************************************************)
(* BrokersWatcher::place_orders, order by order.  Prices are in cents.     *)
(***************************************************************************)
\* i32::MAX, what `as i32` makes of +infinity
I32Max == 2147483647

\* what the realtime-bars stream of get_price may do: deliver a bar with this
\* close, deliver an error item, or end without an item
BarCloses == {18250, 6000000}
StreamResults ==
    {[item |-> "bar", close |-> c] : c \in BarCloses}
        \cup {[item |-> "err_item", close |-> 0], [item |-> "stream_end", close |-> 0]}

\* brokers_watcher.rs:167-200: the price, and whether the stream was requested
get_price(known_last_price, stream) ==
    IF known_last_price.some /\ ~known_last_price.nan
    THEN [price |-> known_last_price, stream_requested |-> FALSE]
    ELSE [price |-> IF stream.item = "bar" THEN SomeF64(stream.close) ELSE NaN,
          stream_requested |-> TRUE]

\* brokers_watcher.rs:126: (order.pos_market_value / price).floor() as i32,
\* for a price that is not NaN: x/0.0 is +infinity (0.0/0.0 is NaN, cast to 0)
num_shares_of(pos_market_value, price) ==
    IF price = 0 THEN (IF pos_market_value.num > 0 THEN I32Max ELSE 0)
    ELSE IF price < 0 THEN (IF pos_market_value.num > 0 THEN 0 - 1 ELSE 0)
    ELSE (pos_market_value.num * 100) \div (pos_market_value.den * price)

\* brokers_watcher.rs:145 / 156: ((price * 1.021) * 100.0).round() / 100.0, in cents
limit_price(order_type, price) ==
    IF order_type = "Buy" THEN (price * 1021 + 500) \div 1000
                          ELSE (price * 979 + 500) \div 1000

\* A plausible variant: the simulation flag is looked at only for sells.
ProcessOrder_sim_sells_only(order, stream, simulation) ==
    LET p == get_price(order.known_last_price, stream)
        n == IF p.price.nan THEN 0 ELSE num_shares_of(order.pos_market_value, p.price.cents)
    IN  [stream_requested |-> p.stream_requested,
         price |-> p.price,
         shares_computed |-> ~p.price.nan,
         num_shares |-> n,
         result |-> IF p.price.nan THEN "no_price"
                    ELSE IF n <= 0 THEN "no_shares"
                    ELSE IF simulation /\ order.order_type = "Sell" THEN "simulated"
                    ELSE "submit"]

\* brokers_watcher.rs:115-163: one iteration of `for order in &orders`, up to
\* the submission
ProcessOrder(order, stream, simulation) ==
    LET p == get_price(order.known_last_price, stream)
        n == IF p.price.nan THEN 0 ELSE num_shares_of(order.pos_market_value, p.price.cents)
    IN  [stream_requested |-> p.stream_requested,
         price |-> p.price,
         shares_computed |-> ~p.price.nan,
         num_shares |-> n,
         result |-> IF p.price.nan THEN "no_price"
                    ELSE IF n <= 0 THEN "no_shares"
                    ELSE IF simulation THEN "simulated"
                    ELSE "submit"]

\* the submissions place_orders makes for the first k orders of a batch
SubmitCount(orders, k, stream, simulation) ==
    Cardinality({i \in 1..k : ProcessOrder(orders[i], stream, simulation).result = "submit"})

\* how long an awaited network call may take (ms): a fast one, a slow one and
\* one that outlasts the simulation deadline
CallDurationsMs == {500, 2000, 31000}

\* A plausible variant: the flag is raised only after place_orders has been
\* called, and an earlier trade is not looked at.
FastrunningLoopImpl_flag_late(events, dur) ==
    /\ run_pc = "tick"
    /\ ticks' = ticks + 1
    /\ tradable_ticks' = IF Len(events) = 0 \/ Len(events) > MaxExpectedEvents(task)
                       THEN tradable_ticks ELSE tradable_ticks + 1
    /\ tick_started_at' = clock_ms
    /\ clock_ms' = clock_ms + dur
    /\ IF Len(events) = 0 \/ Len(events) > MaxExpectedEvents(task)
       THEN /\ run_pc' = "after_tick"
            /\ UNCHANGED <<has_trading_ever_started, rqorders, place_orders_calls>>
       ELSE /\ UNCHANGED has_trading_ever_started
            /\ rqorders' = build_rqorders(SizedEvents(task, events))
            /\ place_orders_calls' = place_orders_calls + 1
            /\ run_pc' = "placing"
    /\ UNCHANGED <<task, is_manual_user_forcerun, is_simulation, is_run_today,
                   loop_endtime, loop_start, emails>>

\* fast_runner.rs:437-462 / 608-633, up to the call of RoboTrader::place_orders
FastrunningLoopImpl(events, dur) ==
    /\ run_pc = "tick"
    /\ ticks' = ticks + 1
    /\ tradable_ticks' = IF Len(events) = 0 \/ Len(events) > MaxExpectedEvents(task)
                       THEN tradable_ticks ELSE tradable_ticks + 1
    /\ tick_started_at' = clock_ms
    /\ clock_ms' = clock_ms + dur      \* the awaited detector call
    /\ IF Len(events) = 0 \/ Len(events) > MaxExpectedEvents(task)
       THEN \* "Skipping trading."
            /\ run_pc' = "after_tick"
            /\ UNCHANGED <<has_trading_ever_started, rqorders, place_orders_calls>>
       ELSE IF has_trading_ever_started
       THEN \* "Trading already started. Skipping this iteration."
            /\ run_pc' = "after_tick"
            /\ UNCHANGED <<has_trading_ever_started, rqorders, place_orders_calls>>
       ELSE /\ has_trading_ever_started' = TRUE
            /\ rqorders' = build_rqorders(SizedEvents(task, events))
            /\ place_orders_calls' = place_orders_calls + 1
            /\ run_pc' = "placing"
    /\ UNCHANGED <<task, is_manual_user_forcerun, is_simulation, is_run_today,
                   loop_endtime, loop_start, emails>>

\* the tick function from its entry to its return or to the call of place_orders
Tick == \E events \in DetectorResults(task), dur \in CallDurationsMs :
            FastrunningLoopImpl(events, dur)

\* an expect() of the detector fails (request error, body that is no JSON of the
\* expected shape, unreadable cookie file): the panic unwinds through run()
TickPanics ==
    /\ run_pc = "tick"
    /\ ticks' = ticks + 1
    /\ tick_started_at' = clock_ms
    /\ run_pc' = "panicked"
    /\ UNCHANGED <<task, is_manual_user_forcerun, is_simulation, is_run_today,
                   has_trading_ever_started, loop_endtime, clock_ms, rqorders,
                   place_orders_calls, loop_start, emails, tradable_ticks>>

\* RoboTrader::place_orders(...).await returns (fast_runner.rs:462 / 633) or an
\* expect() inside BrokersWatcher::place_orders panics
PlaceOrdersReturns ==
    /\ run_pc = "placing"
    /\ \E dur \in CallDurationsMs : clock_ms' = clock_ms + dur
    /\ \E stream \in StreamResults :
          \/ /\ run_pc' = "after_tick"
             /\ order_submits' =
                   order_submits + SubmitCount(rqorders, Len(rqorders), stream, is_simulation)
          \/ \E k \in 0..Len(rqorders) :     \* an expect() fails at or after order k
                /\ run_pc' = "panicked"
                /\ order_submits' = order_submits + SubmitCount(rqorders, k, stream, is_simulation)
    /\ UNCHANGED <<task, is_manual_user_forcerun, is_simulation, is_run_today,
                   has_trading_ever_started, loop_endtime, rqorders,
                   place_orders_calls, ticks, loop_start, tick_started_at, emails, tradable_ticks>>

(***************************************************************************)
(* SpecFastRunner: one FastRunner, as FastRunner::new() builds it and with *)
(* is_simulation as its owner sets it, whose tick function is called again *)
(* and again with any detector results.                                    *)
(***************************************************************************)
InitFastRunner ==
    /\ task \in {"Pqp", "Ap"}
    /\ is_manual_user_forcerun = FALSE
    /\ is_simulation \in BOOLEAN
    /\ is_run_today = FALSE
    /\ has_trading_ever_started = FALSE
    /\ loop_endtime = NoDeadline
    /\ clock_ms = 0
    /\ run_pc = "tick"
    /\ rqorders = <<>>
    /\ place_orders_calls = 0
    /\ ticks = 0
    /\ loop_start = 0
    /\ tick_started_at = 0
    /\ emails = 0
    /\ tradable_ticks = 0
    /\ tasks = <<>>
    /\ next_time = <<>>
    /\ sched_now = NotCalled
    /\ due_tasks = <<>>
    /\ wake_utc = 0
    /\ inflight = <<>>
    /\ late_wakes = 0
    /\ order_submits = 0
    /\ broker = <<>>
    /\ session = <<>>
    /\ planner = <<>>
    /\ pool = <<>>
    /\ tz = "UTC"
    /\ now_utc = 0
    /\ target_time_tz = 0
    /\ future_dt = NotCalled
    /\ clk_pc = "returned"

\* the owner of the FastRunner calls the tick function once more
CallTickAgain ==
    /\ run_pc = "after_tick"
    /\ ticks < MaxTicks
    /\ run_pc' = "tick"
    /\ UNCHANGED <<task, is_manual_user_forcerun, is_simulation, is_run_today,
                   has_trading_ever_started, loop_endtime, clock_ms, rqorders,
                   place_orders_calls, ticks, loop_start, tick_started_at, emails, tradable_ticks>>

NextFastRunner ==
    \/ (Tick /\ UNCHANGED <<clockVars, schedVars, unitVars>>)
    \/ (TickPanics /\ UNCHANGED <<clockVars, schedVars, unitVars>>)
    \/ (PlaceOrdersReturns /\ UNCHANGED <<clockVars, schedVars, broker, session, planner, pool>>)
    \/ (CallTickAgain /\ UNCHANGED <<clockVars, schedVars, unitVars>>)

SpecFastRunner == InitFastRunner /\ [][NextFastRunner]_vars

(***************************************************************************)
(* SpecCappedTicks: the FastRunner of SpecFastRunner on a day on which the *)
(* detector finds events at every call: a tick that does not trade is then *)
(* a tick that found more events than the limit.  The detector calls are   *)
(* the fast ones; the tick function does not look at the clock.            *)
(***************************************************************************)
TickFindsEvents ==
    \E events \in DetectorResults(task) :
        /\ Len(events) > 0
        /\ FastrunningLoopImpl(events, SetMin(CallDurationsMs))

NextCappedTicks ==
    \/ (TickFindsEvents /\ UNCHANGED <<clockVars, schedVars, unitVars>>)
    \/ (PlaceOrdersReturns /\ UNCHANGED <<clockVars, schedVars, broker, session, planner, pool>>)
    \/ (CallTickAgain /\ UNCHANGED <<clockVars, schedVars, unitVars>>)

SpecCappedTicks == InitFastRunner /\ [][NextCappedTicks]_vars

(***************************************************************************)
(* SpecRun: FastRunnerPqpTask::run / FastRunnerApTask::run, one run after  *)
(* the other, each on a FastRunner of its own.                             *)
(***************************************************************************)
(***************************************************************************)
(* Calendar dates (days since 2026-01-01) and the rebalance dates and PVs  *)
(* of FastRunner::pqp_ap_calculate_dates_and_pv.                           *)
(***************************************************************************)
\* chrono::Weekday as num_days_from_monday()
Mon == 0
Sat == 5
Sun == 6
\* 2026-01-01 is a Thursday
WeekdayOfJan1 == 3

MonthLengths == <<31, 28, 31, 30, 31, 30, 31, 31, 30, 31, 30, 31>>

RECURSIVE DaysBeforeMonth(_)
DaysBeforeMonth(m) == IF m = 1 THEN 0 ELSE DaysBeforeMonth(m - 1) + MonthLengths[m - 1]

\* the dates of 2026
Dates == 0..(DaysBeforeMonth(12) + MonthLengths[12] - 1)

\* NaiveDate::from_ymd, month(), day(), weekday(), with_day()
Ymd(m, d) == DaysBeforeMonth(m) + d - 1
month(date) == CHOOSE m \in 1..12 :
                  DaysBeforeMonth(m) <= date /\ date < DaysBeforeMonth(m) + MonthLengths[m]
day(date) == date - DaysBeforeMonth(month(date)) + 1
weekday(date) == (date + WeekdayOfJan1) % 7
with_day(date, d) == date - day(date) + d

\* String::new(): no target date computed
NoDate == 0 - 1

\* fast_runner.rs:222-224: always the current or the last Monday
pqp_real_rebalance_date(now) == now - weekday(now)

\* fast_runner.rs:231-235
ap_virtual_rebalance_date(now) ==
    IF day(now) >= 15 THEN with_day(now, 15) ELSE with_day(now, 1)

\* A plausible variant: a Sunday is rolled forward like a Saturday.
ap_real_rebalance_date_sunday_plus_two(virtual) ==
    IF weekday(virtual) = Sat \/ weekday(virtual) = Sun THEN virtual + 2 ELSE virtual

\* fast_runner.rs:236-240
ap_real_rebalance_date(virtual) ==
    IF weekday(virtual) = Sat THEN virtual + 2
    ELSE IF weekday(virtual) = Sun THEN virtual + 1
    ELSE virtual

\* the date and PV fields of FastRunner::new() on the day `today`
PlanNew(today) ==
    [pc |-> "new",
     now_utc |-> today,
     pqp_json_target_date |-> NoDate,
     pqp_is_run_today |-> FALSE,
     ap_json_target_date |-> NoDate,
     ap_is_run_today |-> FALSE,
     pqp_buy_pv |-> pqp_buy_pv_new,
     pqp_sell_pv |-> pqp_sell_pv_new,
     ap_buy_pv |-> ap_buy_pv_new,
     sized_by |-> "none",
     events |-> <<>>]

\* fast_runner.rs:219-270
pqp_ap_calculate_dates_and_pv(p) ==
    LET now == p.now_utc
        pqp_date == pqp_real_rebalance_date(now)
        ap_date == ap_real_rebalance_date(ap_virtual_rebalance_date(now))
        pqp_today == now = pqp_date
        ap_today == now = ap_date
    IN  [p EXCEPT
            !.pqp_json_target_date = pqp_date,
            !.pqp_is_run_today = pqp_today,
            !.ap_json_target_date = ap_date,
            !.ap_is_run_today = ap_today,
            !.pqp_buy_pv = IF pqp_today /\ ap_today THEN 70000
                           ELSE IF pqp_today THEN 140000 ELSE 0,
            !.pqp_sell_pv = IF pqp_today THEN 60000 ELSE 0,
            !.ap_buy_pv = IF pqp_today /\ ap_today THEN 70000
                          ELSE IF pqp_today THEN 0
                          ELSE IF ap_today THEN 200000 ELSE 0]

\* the days on which the runs of the model start: Monday 2026-06-01, Tuesday
\* 2026-06-02, Monday 2026-06-08, Monday 2026-08-03 (the 1st is a Saturday) and
\* Wednesday 2026-04-15
RunDates == {Ymd(6, 1), Ymd(6, 2), Ymd(6, 8), Ymd(8, 3), Ymd(4, 15)}

\* the whole seconds between Utc::now() and 12:00:00 ET of the day, at run start
SecsFromNoon == {0 - 3600, 0 - 55, 0 - 54, 0, 54, 55}

\* A plausible variant: the live-mode deadline is used in both modes.
LoopEndtime_always_live(now_ms, simulation) == now_ms + (4 * 60 + 30) * 1000

\* fast_runner_task.rs:89-91 / 202-204
LoopEndtime(now_ms, simulation) ==
    now_ms + (IF simulation THEN 30 * 1000 ELSE (4 * 60 + 30) * 1000)

\* A plausible variant: a run that starts exactly 55 s from noon is live too.
RunStart_window_inclusive(tk, forced, from_noon, today) ==
    /\ run_pc \in {"idle", "done", "panicked"}
    /\ task' = tk
    /\ is_manual_user_forcerun' = forced
    /\ has_trading_ever_started' = FALSE
    /\ rqorders' = <<>>
    /\ place_orders_calls' = 0
    /\ ticks' = 0
    /\ tick_started_at' = 0
    /\ emails' = 0
    /\ tradable_ticks' = 0
    /\ order_submits' = 0
    /\ planner' = PlanNew(today)
    /\ clock_ms' = 0
    /\ LET is_live_trading_based_on_closeto_noon ==
               (IF from_noon < 0 THEN 0 - from_noon ELSE from_noon) <= 55
           run_today == IF forced THEN TRUE ELSE FALSE
           simulation == IF forced THEN TRUE ELSE ~is_live_trading_based_on_closeto_noon
       IN  /\ is_run_today' = run_today
           /\ is_simulation' = simulation
           /\ IF ~run_today
              THEN \* "Today is not the scheduled day": return
                   /\ run_pc' = "done"
                   /\ loop_endtime' = NoDeadline
                   /\ loop_start' = 0
              ELSE /\ run_pc' = "loop_check"
                   /\ loop_endtime' = LoopEndtime(0, simulation)
                   /\ loop_start' = 0

\* A plausible variant: a forced run keeps the mode computed from the time of day.
RunStart_forced_keeps_mode(tk, forced, from_noon, today) ==
    /\ run_pc \in {"idle", "done", "panicked"}
    /\ task' = tk
    /\ is_manual_user_forcerun' = forced
    /\ has_trading_ever_started' = FALSE
    /\ rqorders' = <<>>
    /\ place_orders_calls' = 0
    /\ ticks' = 0
    /\ tick_started_at' = 0
    /\ emails' = 0
    /\ tradable_ticks' = 0
    /\ order_submits' = 0
    /\ planner' = PlanNew(today)
    /\ clock_ms' = 0
    /\ LET is_live_trading_based_on_closeto_noon ==
               (IF from_noon < 0 THEN 0 - from_noon ELSE from_noon) < 55
           run_today == IF forced THEN TRUE ELSE FALSE
           simulation == ~is_live_trading_based_on_closeto_noon
       IN  /\ is_run_today' = run_today
           /\ is_simulation' = simulation
           /\ IF ~run_today
              THEN \* "Today is not the scheduled day": return
                   /\ run_pc' = "done"
                   /\ loop_endtime' = NoDeadline
                   /\ loop_start' = 0
              ELSE /\ run_pc' = "loop_check"
                   /\ loop_endtime' = LoopEndtime(0, simulation)
                   /\ loop_start' = 0

\* fast_runner_task.rs:61-91 / 174-204.  FastRunner::new() leaves
\* pqp_is_run_today / ap_is_run_today false and is_simulation true.
\* `fast_runner.init();` (line 67 / 180) builds the future of the async fn init
\* and drops it without .await, so pqp_ap_calculate_dates_and_pv never runs and
\* the fields keep the values of new(): only a forced run passes the
\* "is today the scheduled day" gate.  planner holds those fields and the
\* date Utc::now() has on the day of the run.
RunStart(tk, forced, from_noon, today) ==
    /\ run_pc \in {"idle", "done", "panicked"}
    /\ task' = tk
    /\ is_manual_user_forcerun' = forced
    /\ has_trading_ever_started' = FALSE
    /\ rqorders' = <<>>
    /\ place_orders_calls' = 0
    /\ ticks' = 0
    /\ tick_started_at' = 0
    /\ emails' = 0
    /\ tradable_ticks' = 0
    /\ order_submits' = 0
    /\ planner' = PlanNew(today)
    /\ clock_ms' = 0
    /\ LET is_live_trading_based_on_closeto_noon ==
               (IF from_noon < 0 THEN 0 - from_noon ELSE from_noon) < 55
           run_today == IF forced THEN TRUE ELSE FALSE
           simulation == IF forced THEN TRUE ELSE ~is_live_trading_based_on_closeto_noon
       IN  /\ is_run_today' = run_today
           /\ is_simulation' = simulation
           /\ IF ~run_today
              THEN \* "Today is not the scheduled day": return
                   /\ run_pc' = "done"
                   /\ loop_endtime' = NoDeadline
                   /\ loop_start' = 0
              ELSE /\ run_pc' = "loop_check"
                   /\ loop_endtime' = LoopEndtime(0, simulation)
                   /\ loop_start' = 0

\* fast_runner_task.rs:99 / 206: while tokio::time::Instant::now() < loop_endtime
LoopCheck ==
    /\ run_pc = "loop_check"
    /\ run_pc' = IF clock_ms < loop_endtime THEN "tick" ELSE "ended"
    /\ UNCHANGED <<task, is_manual_user_forcerun, is_simulation, is_run_today,
                   has_trading_ever_started, loop_endtime, clock_ms, rqorders,
                   place_orders_calls, ticks, loop_start, tick_started_at, emails, tradable_ticks>>

\* A plausible variant: neither break is there, the loop always sleeps and goes on.
AfterTick_no_break ==
    /\ run_pc = "after_tick"
    /\ clock_ms' = clock_ms + (IF is_simulation THEN loop_sleep_ms_simulation
                                                ELSE loop_sleep_ms_realtrading)
    /\ run_pc' = "loop_check"
    /\ UNCHANGED <<task, is_manual_user_forcerun, is_simulation, is_run_today,
                   has_trading_ever_started, loop_endtime, rqorders,
                   place_orders_calls, ticks, loop_start, tick_started_at, emails, tradable_ticks>>

\* A plausible variant: the forced-run break is missing.
AfterTick_no_forcerun_break ==
    /\ run_pc = "after_tick"
    /\ IF has_trading_ever_started
       THEN /\ run_pc' = "ended"
            /\ UNCHANGED clock_ms
       ELSE /\ clock_ms' = clock_ms + (IF is_simulation THEN loop_sleep_ms_simulation
                                                        ELSE loop_sleep_ms_realtrading)
            /\ run_pc' = "loop_check"
    /\ UNCHANGED <<task, is_manual_user_forcerun, is_simulation, is_run_today,
                   has_trading_ever_started, loop_endtime, rqorders,
                   place_orders_calls, ticks, loop_start, tick_started_at, emails, tradable_ticks>>

\* fast_runner_task.rs:103-115 / 210-222: the two breaks, else the sleep
AfterTick ==
    /\ run_pc = "after_tick"
    /\ IF is_manual_user_forcerun
       THEN /\ run_pc' = "ended"
            /\ UNCHANGED clock_ms
       ELSE IF has_trading_ever_started
       THEN /\ run_pc' = "ended"
            /\ UNCHANGED clock_ms
       ELSE /\ clock_ms' = clock_ms + (IF is_simulation THEN loop_sleep_ms_simulation
                                                        ELSE loop_sleep_ms_realtrading)
            /\ run_pc' = "loop_check"
    /\ UNCHANGED <<task, is_manual_user_forcerun, is_simulation, is_run_today,
                   has_trading_ever_started, loop_endtime, rqorders,
                   place_orders_calls, ticks, loop_start, tick_started_at, emails, tradable_ticks>>

\* fast_runner_task.rs:117-120 / 224-227: the run log is mailed
RunEnd ==
    /\ run_pc = "ended"
    /\ emails' = emails + 1
    /\ run_pc' = "done"
    /\ UNCHANGED <<task, is_manual_user_forcerun, is_simulation, is_run_today,
                   has_trading_ever_started, loop_endtime, clock_ms, rqorders,
                   place_orders_calls, ticks, loop_start, tick_started_at, tradable_ticks>>

InitRun ==
    /\ task = "Pqp"
    /\ is_manual_user_forcerun = FALSE
    /\ is_simulation = TRUE
    /\ is_run_today = FALSE
    /\ has_trading_ever_started = FALSE
    /\ loop_endtime = NoDeadline
    /\ clock_ms = 0
    /\ run_pc = "idle"
    /\ rqorders = <<>>
    /\ place_orders_calls = 0
    /\ ticks = 0
    /\ loop_start = 0
    /\ tick_started_at = 0
    /\ emails = 0
    /\ tradable_ticks = 0
    /\ tasks = <<>>
    /\ next_time = <<>>
    /\ sched_now = NotCalled
    /\ due_tasks = <<>>
    /\ wake_utc = 0
    /\ inflight = <<>>
    /\ late_wakes = 0
    /\ order_submits = 0
    /\ broker = <<>>
    /\ session = <<>>
    /\ planner = <<>>
    /\ pool = <<>>
    /\ tz = "UTC"
    /\ now_utc = 0
    /\ target_time_tz = 0
    /\ future_dt = NotCalled
    /\ clk_pc = "returned"

StartRun ==
    \E tk \in {"Pqp", "Ap"}, forced \in BOOLEAN, from_noon \in SecsFromNoon, today \in RunDates :
        RunStart(tk, forced, from_noon, today)

NextRun ==
    \/ (StartRun /\ UNCHANGED <<clockVars, schedVars, broker, session, pool>>)
    \/ (LoopCheck /\ UNCHANGED <<clockVars, schedVars, unitVars>>)
    \/ (Tick /\ UNCHANGED <<clockVars, schedVars, unitVars>>)
    \/ (TickPanics /\ UNCHANGED <<clockVars, schedVars, unitVars>>)
    \/ (PlaceOrdersReturns /\ UNCHANGED <<clockVars, schedVars, broker, session, planner, pool>>)
    \/ (AfterTick /\ UNCHANGED <<clockVars, schedVars, unitVars>>)
    \/ (RunEnd /\ UNCHANGED <<clockVars, schedVars, unitVars>>)

SpecRun == InitRun /\ [][NextRun]_vars

(***************************************************************************)
(* FastRunner and run() claims.                                            *)
(***************************************************************************)
\* C1 (SpecFastRunner): on one FastRunner RoboTrader::place_orders is called at
\* most once whatever the ticks detect; has_trading_ever_started is already
\* true when the call starts and stays true from then on.
C1_PlaceOrdersAtMostOnce ==
    /\ place_orders_calls <= 1
    /\ run_pc = "placing" => has_trading_ever_started
    /\ place_orders_calls = 1 => has_trading_ever_started
    /\ has_trading_ever_started => place_orders_calls = 1

\* two ticks detected events that could be traded, one call was made
C1_Witness ==
    /\ tradable_ticks >= 2
    /\ place_orders_calls = 1
    /\ run_pc = "after_tick"

InLoop == run_pc \in {"loop_check", "tick", "placing", "after_tick", "ended"}

C9_NoPollAfterSubmission ==
    has_trading_ever_started => run_pc \notin {"loop_check", "tick"}

\* a run that submitted on a tick and ended before its deadline
C9_Witness ==
    /\ run_pc = "done"
    /\ has_trading_ever_started
    /\ place_orders_calls = 1
    /\ clock_ms < loop_endtime

\* C10 (SpecRun): a forced run calls the tick function exactly once and then
\* leaves the loop, whatever the tick did.
C10_ForcedRunOneTick ==
    is_manual_user_forcerun =>
        /\ ticks <= 1
        /\ run_pc \in {"ended", "done"} => ticks = 1
        /\ ticks = 1 => run_pc \notin {"loop_check", "tick"}

\* a forced run whose tick found nothing to trade has ended after that tick
C10_Witness ==
    /\ is_manual_user_forcerun
    /\ run_pc = "done"
    /\ ticks = 1
    /\ ~has_trading_ever_started

\* C11 (SpecRun): a forced run is in simulation mode and passes the "is today
\* the scheduled day" gate at every time of day, and no order submission is
\* made during it.
C11_ForcedRunSimulatedNoSubmission ==
    (is_manual_user_forcerun /\ run_pc # "idle") =>
        /\ is_simulation
        /\ is_run_today
        /\ order_submits = 0

\* a forced run whose tick handed orders to place_orders, which returned
C11_Witness ==
    /\ is_manual_user_forcerun
    /\ run_pc = "after_tick"
    /\ place_orders_calls = 1
    /\ Len(rqorders) >= 1
    /\ order_submits = 0

\* C24 (SpecRun): a run that is over, whether it traded, found nothing before
\* the deadline or was a no-op, has sent its session log once.
C24_RunEndsWithNotification ==
    run_pc \in {"done", "panicked"} => emails = 1

\* the rebalance date pqp_ap_calculate_dates_and_pv computes for a task on a day
RebalanceDate(tk, today) ==
    IF tk = "Pqp" THEN pqp_real_rebalance_date(today)
    ELSE ap_real_rebalance_date(ap_virtual_rebalance_date(today))

\* C19 (SpecRun), as stated: a non-forced run passes the "is today the
\* scheduled day" gate and enters the polling loop exactly when today is the
\* task's rebalance date, and on any other day makes no tick and no submission.
C19_NonForcedRunPollsOnRebalanceDate ==
    (~is_manual_user_forcerun /\ run_pc # "idle") =>
        /\ is_run_today <=> (planner.now_utc = RebalanceDate(task, planner.now_utc))
        /\ planner.now_utc # RebalanceDate(task, planner.now_utc) =>
              ticks = 0 /\ order_submits = 0

(***************************************************************************)
(* SpecSched: RqTaskScheduler::start with the tasks main() registers.      *)
(* run() futures are spawned and complete on their own; the scheduler      *)
(* keeps no record of them.  A FastRunner run() awaits network calls that  *)
(* have no timeout (fast_runner.rs:297-299, brokers_watcher.rs:175), so it *)
(* may complete at any later time.  HeartbeatTask::run is one log line     *)
(* without an await point: it is over before the scheduler's sleep is.     *)
(* update_next_trigger_time reads Utc::now() again; the model gives it the *)
(* iteration's `now`.                                                      *)
(***************************************************************************)
Heartbeat == "HeartbeatTask"
Pqp == "FastRunnerPqpTask"
Ap == "FastRunnerApTask"

\* HeartbeatTask::new(): interval = Duration::minutes(10)
HeartbeatInterval == 10 * 60

Hms(h, m, sec) == h * SecPerHour + m * 60 + sec

\* get_next_trigger_time_impl: targets_tz of the two FastRunner tasks
PqpTargets == {Hms(9, 45, 30), Hms(11, 1, 30), Hms(11, 30, 30), Hms(11, 59, 30)}
ApTargets == {Hms(9, 50, 30), Hms(11, 5, 40), Hms(11, 30, 40), Hms(11, 59, 40)}

\* the daily targets of a FastRunner task
Targets(t) == IF t = Pqp THEN PqpTargets ELSE ApTargets

\* A plausible variant: the task is armed for the next occurrence of its
\* first target only.
get_next_trigger_time_impl_first_target(t, now) ==
    localtimeonly2future_datetime_tz("Eastern", now, SetMin(Targets(t)))

\* FastRunnerPqpTask / FastRunnerApTask::get_next_trigger_time_impl at instant now
get_next_trigger_time_impl(t, now) ==
    SetMin({localtimeonly2future_datetime_tz("Eastern", now, x) :
                x \in (IF t = Pqp THEN PqpTargets ELSE ApTargets)})

\* A plausible variant: the heartbeat is not re-armed, it keeps the trigger
\* time it had.
update_next_trigger_time_stale(t, now, old) ==
    IF t = Heartbeat THEN old ELSE get_next_trigger_time_impl(t, now)

\* RqTask::update_next_trigger_time (and the value new() starts next_time with)
update_next_trigger_time(t, now, old) ==
    IF t = Heartbeat THEN now + HeartbeatInterval ELSE get_next_trigger_time_impl(t, now)

Range(f) == {f[i] : i \in DOMAIN f}

\* main.rs:513-520: the heartbeat alone, or with the two FastRunner tasks;
\* RqTaskScheduler::start on an empty list is what the 60 s fallback is for
TaskLists == {<<>>, <<Heartbeat>>, <<Heartbeat, Pqp, Ap>>}

\* a process start on a day far from both DST transitions:
\* Monday 2026-06-01 09:35:30 EDT
OrdinaryStart == Ymd(6, 1) * SecPerDay + Hms(13, 35, 30)

\* process starts: Saturday 2026-03-07 09:35:30 EST, the day before the spring
\* forward, Saturday 2026-10-31 09:35:30 EDT, the day before the fall back,
\* and the ordinary day
StartInstants ==
    {(31 + 28 + 6) * SecPerDay + Hms(14, 35, 30),
     (31 + 28 + 31 + 30 + 31 + 30 + 31 + 31 + 30 + 30) * SecPerDay + Hms(13, 35, 30),
     OrdinaryStart}

\* how late after wake_utc an iteration may read Utc::now() (s)
WakeLateness == {0, 15}

InitSched ==
    /\ tasks \in TaskLists
    /\ \E start \in StartInstants :
          /\ wake_utc = start
          /\ next_time = [t \in Range(tasks) |-> update_next_trigger_time(t, start, start)]
    /\ sched_now = NotCalled
    /\ due_tasks = <<>>
    /\ inflight = [t \in Range(tasks) |-> 0]
    /\ late_wakes = 0
    /\ order_submits = 0
    /\ broker = <<>>
    /\ session = <<>>
    /\ planner = <<>>
    /\ pool = <<>>
    /\ tz = "UTC"
    /\ now_utc = 0
    /\ target_time_tz = 0
    /\ future_dt = NotCalled
    /\ clk_pc = "returned"
    /\ task = "Pqp"
    /\ is_manual_user_forcerun = FALSE
    /\ is_simulation = TRUE
    /\ is_run_today = FALSE
    /\ has_trading_ever_started = FALSE
    /\ loop_endtime = NoDeadline
    /\ clock_ms = 0
    /\ run_pc = "idle"
    /\ rqorders = <<>>
    /\ place_orders_calls = 0
    /\ ticks = 0
    /\ loop_start = 0
    /\ tick_started_at = 0
    /\ emails = 0
    /\ tradable_ticks = 0

\* rqtask_scheduler.rs:52-56: the heartbeat's run() has nothing to wait for
HeartbeatRunIsOver == Heartbeat \in Range(tasks) => inflight[Heartbeat] = 0

InHorizon(now) == \E start \in StartInstants : start <= now /\ now < start + HorizonHours * SecPerHour

\* A plausible variant: a dispatched task is taken off the list (one-shot
\* timers) instead of being re-armed.
SchedulerIteration_one_shot(late) ==
    /\ InHorizon(wake_utc + late)
    /\ HeartbeatRunIsOver
    /\ late > 0 => late_wakes < MaxLateWakes
    /\ late_wakes' = IF late > 0 THEN late_wakes + 1 ELSE late_wakes
    /\ LET now == wake_utc + late
           IsDue(t) == next_time[t] <= now
           IsNotDue(t) == ~IsDue(t)
           due == SelectSeq(tasks, IsDue)
           rest == SelectSeq(tasks, IsNotDue)
       IN  /\ \A t \in Range(due) : inflight[t] < MaxInflight
           /\ sched_now' = now
           /\ due_tasks' = due
           /\ inflight' = [t \in Range(tasks) |->
                              IF t \in Range(due) THEN inflight[t] + 1 ELSE inflight[t]]
           /\ next_time' = next_time
           /\ tasks' = rest
           /\ wake_utc' = IF rest = <<>> THEN now + 60
                          ELSE SetMin({next_time[t] : t \in Range(rest)})

\* A plausible variant: a task counts as due when its trigger is within the
\* next minute of the scan.
SchedulerIteration_due_early(late) ==
    /\ InHorizon(wake_utc + late)
    /\ HeartbeatRunIsOver
    /\ late > 0 => late_wakes < MaxLateWakes
    /\ late_wakes' = IF late > 0 THEN late_wakes + 1 ELSE late_wakes
    /\ LET now == wake_utc + late
           IsDue(t) == next_time[t] <= now + 60
           due == SelectSeq(tasks, IsDue)
           nt == [t \in Range(tasks) |->
                    IF t \in Range(due) THEN update_next_trigger_time(t, now, next_time[t])
                                        ELSE next_time[t]]
       IN  /\ \A t \in Range(due) : inflight[t] < MaxInflight
           /\ sched_now' = now
           /\ due_tasks' = due
           /\ inflight' = [t \in Range(tasks) |->
                              IF t \in Range(due) THEN inflight[t] + 1 ELSE inflight[t]]
           /\ next_time' = nt
           /\ wake_utc' = IF tasks = <<>> THEN now + 60
                          ELSE LET soonest == SetMin(Range(nt))
                               IN  IF soonest > now THEN soonest ELSE now
    /\ UNCHANGED tasks

\* A plausible variant: the sleep is computed from the first registered task
\* only, not from the minimum over all tasks.
SchedulerIteration_sleeps_until_first(late) ==
    /\ InHorizon(wake_utc + late)
    /\ HeartbeatRunIsOver
    /\ late > 0 => late_wakes < MaxLateWakes
    /\ late_wakes' = IF late > 0 THEN late_wakes + 1 ELSE late_wakes
    /\ LET now == wake_utc + late
           IsDue(t) == next_time[t] <= now
           due == SelectSeq(tasks, IsDue)
           nt == [t \in Range(tasks) |->
                    IF t \in Range(due) THEN update_next_trigger_time(t, now, next_time[t])
                                        ELSE next_time[t]]
       IN  /\ \A t \in Range(due) : inflight[t] < MaxInflight
           /\ sched_now' = now
           /\ due_tasks' = due
           /\ inflight' = [t \in Range(tasks) |->
                              IF t \in Range(due) THEN inflight[t] + 1 ELSE inflight[t]]
           /\ next_time' = nt
           /\ wake_utc' = IF tasks = <<>> THEN now + 60
                          ELSE LET soonest == nt[tasks[1]]
                               IN  IF soonest > now THEN soonest ELSE now
    /\ UNCHANGED tasks

\* A plausible variant: the loop awaits the run() futures it started before it
\* scans again (task.run().await instead of tokio::spawn).
SchedulerIteration_awaits(late) ==
    /\ InHorizon(wake_utc + late)
    /\ HeartbeatRunIsOver
    /\ \A t \in Range(tasks) : inflight[t] = 0
    /\ late > 0 => late_wakes < MaxLateWakes
    /\ late_wakes' = IF late > 0 THEN late_wakes + 1 ELSE late_wakes
    /\ LET now == wake_utc + late
           IsDue(t) == next_time[t] <= now
           due == SelectSeq(tasks, IsDue)
           nt == [t \in Range(tasks) |->
                    IF t \in Range(due) THEN update_next_trigger_time(t, now, next_time[t])
                                        ELSE next_time[t]]
       IN  /\ sched_now' = now
           /\ due_tasks' = due
           /\ inflight' = [t \in Range(tasks) |->
                              IF t \in Range(due) THEN inflight[t] + 1 ELSE inflight[t]]
           /\ next_time' = nt
           /\ wake_utc' = IF tasks = <<>> THEN now + 60
                          ELSE LET soonest == SetMin(Range(nt))
                               IN  IF soonest > now THEN soonest ELSE now
    /\ UNCHANGED tasks

\* rqtask_scheduler.rs:297-341: one iteration of the loop, from `let now` to the
\* start of its sleep.  Nothing is awaited in between: the due tasks are
\* spawned and re-armed in registration order, then the sleep is computed.
SchedulerIteration(late) ==
    /\ InHorizon(wake_utc + late)
    /\ HeartbeatRunIsOver
    /\ late > 0 => late_wakes < MaxLateWakes
    /\ late_wakes' = IF late > 0 THEN late_wakes + 1 ELSE late_wakes
    /\ LET now == wake_utc + late
           IsDue(t) == next_time[t] <= now
           due == SelectSeq(tasks, IsDue)
           nt == [t \in Range(tasks) |->
                    IF t \in Range(due) THEN update_next_trigger_time(t, now, next_time[t])
                                        ELSE next_time[t]]
       IN  /\ \A t \in Range(due) : inflight[t] < MaxInflight
           /\ sched_now' = now
           /\ due_tasks' = due
           /\ inflight' = [t \in Range(tasks) |->
                              IF t \in Range(due) THEN inflight[t] + 1 ELSE inflight[t]]
           /\ next_time' = nt
           /\ wake_utc' = IF tasks = <<>> THEN now + 60
                          ELSE LET soonest == SetMin(Range(nt))
                               IN  IF soonest > now THEN soonest ELSE now
    /\ UNCHANGED tasks

SchedulerLoop == \E late \in WakeLateness : SchedulerIteration(late)

\* a spawned run() future runs to its end
RunCompletes ==
    \E t \in Range(tasks) :
        /\ inflight[t] > 0
        /\ inflight' = [inflight EXCEPT ![t] = inflight[t] - 1]
        /\ UNCHANGED <<tasks, next_time, sched_now, due_tasks, wake_utc, late_wakes>>

NextSched ==
    \/ (SchedulerLoop /\ UNCHANGED <<clockVars, runVars, unitVars>>)
    \/ (RunCompletes /\ UNCHANGED <<clockVars, runVars, unitVars>>)

SpecSched == InitSched /\ [][NextSched]_vars

(***************************************************************************)
(* SpecSchedLive: the scheduler running for ever on ordinary days, with    *)
(* tasks that are also registered after start().  The loop looks at        *)
(* instants only through their differences and their Eastern wall-clock    *)
(* time, so away from the DST transitions a shift of every instant by 24 h *)
(* changes nothing: DayRollover moves the origin and keeps the instants in *)
(* the horizon.                                                            *)
(***************************************************************************)
MaxRegistrationDelay == 60   \* seconds after the process start within which tasks are registered

AllTasks == {Heartbeat, Pqp, Ap}

\* rqtask_scheduler.rs:282-285: schedule_task pushes a task while the
\* scheduler sleeps; the task was built by its new() at instant r of the
\* sleep, which armed its first trigger.  The tasks are registered in the
\* order of main.rs:513-519.
ScheduleTask(t, r) ==
    /\ Len(tasks) < 3
    /\ t = <<Heartbeat, Pqp, Ap>>[Len(tasks) + 1]
    /\ \A i \in DOMAIN tasks : tasks[i] = <<Heartbeat, Pqp, Ap>>[i]
    /\ IF sched_now = NotCalled THEN r = wake_utc ELSE sched_now <= r /\ r < wake_utc
    /\ r < OrdinaryStart + MaxRegistrationDelay
    /\ tasks' = Append(tasks, t)
    /\ next_time' = [u \in Range(tasks) \cup {t} |->
                        IF u = t THEN update_next_trigger_time(t, r, r) ELSE next_time[u]]
    /\ inflight' = [u \in Range(tasks) \cup {t} |-> IF u = t THEN 0 ELSE inflight[u]]
    /\ UNCHANGED <<sched_now, due_tasks, wake_utc, late_wakes>>

\* the instants of a sleep at which a task may be registered: its start and
\* its middle
RegistrationInstants ==
    IF sched_now = NotCalled THEN {wake_utc}
    ELSE {sched_now, sched_now + (wake_utc - sched_now) \div 2}

\* the origin of time moves on by a day
DayRollover ==
    /\ sched_now # NotCalled
    /\ sched_now >= OrdinaryStart + SecPerDay
    /\ sched_now' = sched_now - SecPerDay
    /\ wake_utc' = wake_utc - SecPerDay
    /\ next_time' = [t \in Range(tasks) |-> next_time[t] - SecPerDay]
    /\ UNCHANGED <<tasks, due_tasks, inflight, late_wakes>>

InitSchedLive ==
    /\ tasks \in TaskLists
    /\ wake_utc = OrdinaryStart
    /\ next_time = [t \in Range(tasks) |->
                       update_next_trigger_time(t, OrdinaryStart, OrdinaryStart)]
    /\ sched_now = NotCalled
    /\ due_tasks = <<>>
    /\ inflight = [t \in Range(tasks) |-> 0]
    /\ late_wakes = 0
    /\ order_submits = 0
    /\ broker = <<>>
    /\ session = <<>>
    /\ planner = <<>>
    /\ pool = <<>>
    /\ tz = "UTC"
    /\ now_utc = 0
    /\ target_time_tz = 0
    /\ future_dt = NotCalled
    /\ clk_pc = "returned"
    /\ task = "Pqp"
    /\ is_manual_user_forcerun = FALSE
    /\ is_simulation = TRUE
    /\ is_run_today = FALSE
    /\ has_trading_ever_started = FALSE
    /\ loop_endtime = NoDeadline
    /\ clock_ms = 0
    /\ run_pc = "idle"
    /\ rqorders = <<>>
    /\ place_orders_calls = 0
    /\ ticks = 0
    /\ loop_start = 0
    /\ tick_started_at = 0
    /\ emails = 0
    /\ tradable_ticks = 0

Scan == SchedulerLoop /\ UNCHANGED <<clockVars, runVars, unitVars>>

RunIsOver == RunCompletes /\ UNCHANGED <<clockVars, runVars, unitVars>>

Rollover == DayRollover /\ UNCHANGED <<clockVars, runVars, unitVars>>

NextSchedLive ==
    \/ Scan
    \/ RunIsOver
    \/ Rollover
    \/ \E t \in AllTasks, r \in RegistrationInstants :
          (ScheduleTask(t, r) /\ UNCHANGED <<clockVars, runVars, unitVars>>)

\* the sleep of the loop ends and the next scan is made; a run() that is over
\* frees its place in the in-flight count
SpecSchedLive ==
    /\ InitSchedLive
    /\ [][NextSchedLive]_vars
    /\ WF_vars(Scan)
    /\ WF_vars(RunIsOver)
    /\ WF_vars(Rollover)

IsScan == sched_now' # sched_now

\* C7: a task dispatched by a loop iteration has been re-armed by the end of
\* that iteration to a trigger strictly later than the iteration's `now`,
\* the scheduler's next wake-up is strictly later too, and a task that was
\* dispatched by one iteration and is still running is not among the due
\* tasks of the next iteration.
C7_DispatchedTaskRearmedLater ==
    /\ [](sched_now # NotCalled =>
            /\ \A t \in Range(due_tasks) : next_time[t] > sched_now
            /\ wake_utc > sched_now)
    /\ [][IsScan => \A t \in Range(due_tasks) :
                        inflight[t] > 0 => t \notin Range(due_tasks')]_vars

\* a FastRunner task was dispatched exactly at one of its targets, its run is
\* still going on, and the iteration after that one dispatched another task
C7_Witness ==
    /\ Ap \in Range(due_tasks)
    /\ Pqp \notin Range(due_tasks)
    /\ inflight[Pqp] > 0
    /\ time(with_timezone("Eastern", sched_now)) \in ApTargets
    /\ next_time[Ap] > sched_now

\* C8: every task that is due at a loop iteration is spawned in that very
\* iteration, whatever else is due or in flight, and no run() in flight of a
\* FastRunner task keeps the scheduler from its next iteration.
C8_DueTasksDispatchedTogether ==
    /\ []((/\ InHorizon(wake_utc)
           /\ HeartbeatRunIsOver
           /\ \A t \in Range(tasks) : inflight[t] < MaxInflight)
          => ENABLED SchedulerLoop)
    /\ [][IsScan => \A t \in Range(tasks) :
                        next_time[t] <= sched_now' =>
                            /\ t \in Range(due_tasks')
                            /\ inflight'[t] = inflight[t] + 1]_vars

\* two FastRunner tasks were due at the same iteration (a late wake-up after
\* 11:30:40 ET) and both runs are in flight
C8_Witness ==
    /\ Pqp \in Range(due_tasks)
    /\ Ap \in Range(due_tasks)
    /\ inflight[Pqp] > 0
    /\ inflight[Ap] > 0

\* C31: in a scan a task is in the due-set exactly when its trigger time is
\* not later than the scan's `now`; a due task is in the due-set once and one
\* run() of it is spawned, no run() of any other task is spawned.
C31_DueIffTriggerReached ==
    [][IsScan =>
         \A t \in Range(tasks) :
             /\ t \in Range(due_tasks') <=> next_time[t] <= sched_now'
             /\ Cardinality({i \in DOMAIN due_tasks' : due_tasks'[i] = t}) <= 1
             /\ inflight'[t] = inflight[t] + (IF next_time[t] <= sched_now' THEN 1 ELSE 0)]_vars

\* a scan 15 s late found the heartbeat due, dispatched it alone, and left the
\* two FastRunner tasks, whose triggers are still ahead, alone
C31_Witness ==
    /\ tasks = <<Heartbeat, Pqp, Ap>>
    /\ due_tasks = <<Heartbeat>>
    /\ late_wakes > 0
    /\ next_time[Pqp] > sched_now
    /\ next_time[Ap] > sched_now
    /\ inflight[Pqp] = 0
    /\ inflight[Ap] = 0

\* rqtask_scheduler.rs:339: the fallback sleep (s) of a scheduler without tasks
FallbackSleep == 60

\* C27: after a scan the scheduler sleeps until the minimum of the next
\* trigger times of all registered tasks, not at all when that minimum is not
\* later than the scan's `now`, and 60 s when no task is registered; the next
\* scan reads the clock no later than the longest wake-up lateness after that.
C27_SleepsUntilEarliestTrigger ==
    /\ [](sched_now # NotCalled =>
            IF tasks = <<>>
            THEN wake_utc = sched_now + FallbackSleep
            ELSE LET earliest == SetMin(Range(next_time))
                 IN  wake_utc = IF earliest > sched_now THEN earliest ELSE sched_now)
    /\ [][IsScan => \E late \in WakeLateness : sched_now' = wake_utc + late]_vars

\* the scheduler sleeps until the trigger of the task registered last, which
\* is earlier than the triggers of the two tasks registered before it
C27_Witness ==
    /\ tasks = <<Heartbeat, Pqp, Ap>>
    /\ sched_now # NotCalled
    /\ wake_utc = next_time[Ap]
    /\ next_time[Ap] < next_time[Heartbeat]
    /\ next_time[Ap] < next_time[Pqp]
    /\ wake_utc > sched_now

\* C28: every scan of the task list ends in an awaited sleep: the instant the
\* sleep is over is later than the scan's `now` (no trigger time is the
\* MIN_UTC of the DST-gap fallback), so the loop suspends between two scans.
C28_ScanEndsInAwaitedSleep ==
    /\ [](\A t \in Range(tasks) : next_time[t] # MIN_UTC)
    /\ [][IsScan => wake_utc' > sched_now']_vars

\* a scan on the spring-forward day, exactly at a target of the task it
\* dispatched, after which the scheduler sleeps
C28_Witness ==
    /\ sched_now # NotCalled
    /\ sched_now >= SpringForwardUtc
    /\ sched_now < SpringForwardUtc + SecPerDay
    /\ Pqp \in Range(due_tasks)
    /\ time(with_timezone("Eastern", sched_now)) \in PqpTargets
    /\ wake_utc > sched_now

\* the checkpoint that follows the checkpoint at instant trig in the task's
\* daily list: the next target of the same Eastern day, or the first target
\* of the day after
NextCheckpoint(t, trig) ==
    LET l == with_timezone("Eastern", trig)
        later == {x \in Targets(t) : x > time(l)}
    IN  IF later # {}
        THEN earliest_or_min(from_local_datetime("Eastern", and_time(date_naive(l), SetMin(later))))
        ELSE earliest_or_min(from_local_datetime("Eastern", and_time(date_naive(l) + 1, SetMin(Targets(t)))))

C34_LiveOnlyNearNoonUnforced ==
    /\ [][\A tk \in {"Pqp", "Ap"}, forced \in BOOLEAN, from_noon \in SecsFromNoon, today \in RunDates :
             RunStart(tk, forced, from_noon, today) =>
                 (~is_simulation' <=> (~forced /\ 0 - 55 < from_noon /\ from_noon < 55))]_vars
    /\ [][run_pc \notin {"idle", "done", "panicked"} => is_simulation' = is_simulation]_vars
    /\ [](is_simulation => order_submits = 0)
    /\ [](\A t \in {Pqp, Ap} :
            Cardinality({x \in Targets(t) : Hms(12, 0, 0) - 55 < x /\ x < Hms(12, 0, 0) + 55}) = 1)

\* a run that was not forced and started less than 55 s from noon is live and
\* over
C34_Witness ==
    /\ ~is_manual_user_forcerun
    /\ ~is_simulation
    /\ run_pc = "done"

C32_EveryTaskDispatchedForEver ==
    \A t \in AllTasks :
        \/ [](t \notin Range(tasks))
        \/ []<><<IsScan /\ t \in Range(due_tasks')>>_vars

\* start() found no task; the heartbeat was registered in the middle of the
\* 60 s fallback sleep, 30 s after the start, and a scan made on time, ten
\* minutes after the registration or a multiple of it, dispatched it
C32_Witness ==
    /\ tasks = <<Heartbeat>>
    /\ late_wakes = 0
    /\ sched_now # NotCalled
    /\ due_tasks = <<Heartbeat>>
    /\ (sched_now - OrdinaryStart) % HeartbeatInterval = FallbackSleep \div 2

(***************************************************************************)
(* TriggerClock claims (checked under SpecClock).                          *)
(***************************************************************************)
now_tz == with_timezone(tz, now_utc)

\* the instants at which the wall clock of z reads t on local date d
Occurrences(z, d, t) == from_local_datetime(z, and_time(d, t))

\* the local date-time the call settled on lies in a spring-forward gap
ChosenInGap == from_local_datetime(tz, future_target_tz(tz, now_utc, target_time_tz)) = {}
ChosenAmbiguous ==
    Cardinality(from_local_datetime(tz, future_target_tz(tz, now_utc, target_time_tz))) = 2

\* C4: the result is today's or tomorrow's occurrence of the target local time,
\* it is strictly later than the call instant, and when the local time of the
\* call equals the target exactly it is tomorrow's occurrence.  Stated for the
\* calls whose chosen local date-time exists (the gap is C5's subject).
C4_TodayOrTomorrowStrictlyFuture ==
    (clk_pc = "returned" /\ ~ChosenInGap) =>
        LET today == date_naive(now_tz)
        IN  /\ future_dt > now_utc
            /\ future_dt \in Occurrences(tz, today, target_time_tz)
                             \cup Occurrences(tz, today + 1, target_time_tz)
            /\ (time(now_tz) = target_time_tz
                    => future_dt \in Occurrences(tz, today + 1, target_time_tz))

FutureOccurrences ==
    {u \in UNION {Occurrences(tz, d, target_time_tz) :
                    d \in (date_naive(now_tz) - 1)..(date_naive(now_tz) + 2)} :
        u > now_utc}

\* C6: the result is the nearest future occurrence of the target local time:
\* no instant strictly between the call instant and the result reads the target.
\* Stated for the calls whose chosen local date-time exists.
C6_NearestFutureOccurrence ==
    (clk_pc = "returned" /\ ~ChosenInGap) =>
        /\ future_dt \in FutureOccurrences
        /\ \A u \in FutureOccurrences : future_dt <= u

(***************************************************************************)
(* SpecBroker: BrokersWatcher::place_orders on one batch, one order of the *)
(* for loop per step.  broker holds the call's arguments, the two gateway  *)
(* handles and what the call has done so far.                              *)
(***************************************************************************)
MaxOrders == 2

\* RqOrder values tried (ticker and company name play no part)
RqOrders ==
    [order_type : {"Buy", "Sell"},
     pos_market_value : {F64(0), F64Div(70000, 3)},
     known_last_price : {known_last_price_of(p) : p \in PriceStrings \cup {None}}]

OrderBatches == UNION {[1..n -> RqOrders] : n \in 0..MaxOrders}

\* gateways[1] (gyantal) and gateways[0] (dcmain): is ib_client Some?
GatewayHandles ==
    {[gyantal |-> TRUE, dcmain |-> TRUE],
     [gyantal |-> FALSE, dcmain |-> TRUE],
     [gyantal |-> TRUE, dcmain |-> FALSE]}

BrokerIdle ==
    [pc |-> "idle", orders |-> <<>>, is_simulation |-> TRUE,
     ib_client |-> [gyantal |-> TRUE, dcmain |-> TRUE],
     done |-> 0, prices |-> <<>>, price_resolved |-> {}, stream_requested |-> {},
     shares_computed |-> {}, skipped |-> {}, submitted |-> <<>>, rejected |-> {}]

\* brokers_watcher.rs:91-105: the call, the empty-batch return and the two
\* expect("ib_client is not initialized")
CallPlaceOrders(orders, simulation, handles) ==
    broker' = [BrokerIdle EXCEPT
                !.orders = orders,
                !.is_simulation = simulation,
                !.ib_client = handles,
                !.pc = IF orders = <<>> THEN "returned"
                       ELSE IF ~handles.gyantal \/ ~handles.dcmain THEN "panicked"
                       ELSE "in_loop"]

\* a caller hands a batch to place_orders
PlaceOrdersCalled ==
    /\ broker.pc = "idle"
    /\ \E orders \in OrderBatches, simulation \in BOOLEAN, handles \in GatewayHandles :
          CallPlaceOrders(orders, simulation, handles)

\* A plausible variant: the loop body without the simulation check.
PlaceOneOrder_no_simulation_check(stream, submit_ok) ==
    /\ broker.pc = "in_loop"
    /\ broker.done < Len(broker.orders)
    /\ LET i == broker.done + 1
           order == broker.orders[i]
           o == ProcessOrder(order, stream, FALSE)
       IN  broker' = [broker EXCEPT
               !.done = i,
               !.prices = Append(@, o.price),
               !.price_resolved = @ \cup {i},
               !.stream_requested = IF o.stream_requested THEN @ \cup {i} ELSE @,
               !.shares_computed = IF o.shares_computed THEN @ \cup {i} ELSE @,
               !.skipped = IF o.result \in {"no_price", "no_shares"} THEN @ \cup {i} ELSE @,
               !.submitted = IF o.result = "submit"
                             THEN Append(@, [order |-> i,
                                             action |-> order.order_type,
                                             num_shares |-> o.num_shares,
                                             order_kind |-> "limit",
                                             limit |-> limit_price(order.order_type, o.price.cents)])
                             ELSE @,
               !.rejected = IF o.result = "submit" /\ ~submit_ok THEN @ \cup {i} ELSE @,
               !.pc = IF o.result = "submit" /\ ~submit_ok THEN "panicked" ELSE @]

\* brokers_watcher.rs:115-163: one iteration of the for loop; submit_ok is
\* whether submit().await returned Ok (expect("order submission failed!"))
PlaceOneOrder(stream, submit_ok) ==
    /\ broker.pc = "in_loop"
    /\ broker.done < Len(broker.orders)
    /\ LET i == broker.done + 1
           order == broker.orders[i]
           o == ProcessOrder(order, stream, broker.is_simulation)
       IN  broker' = [broker EXCEPT
               !.done = i,
               !.prices = Append(@, o.price),
               !.price_resolved = @ \cup {i},
               !.stream_requested = IF o.stream_requested THEN @ \cup {i} ELSE @,
               !.shares_computed = IF o.shares_computed THEN @ \cup {i} ELSE @,
               !.skipped = IF o.result \in {"no_price", "no_shares"} THEN @ \cup {i} ELSE @,
               !.submitted = IF o.result = "submit"
                             THEN Append(@, [order |-> i,
                                             action |-> order.order_type,
                                             num_shares |-> o.num_shares,
                                             order_kind |-> "limit",
                                             limit |-> limit_price(order.order_type, o.price.cents)])
                             ELSE @,
               !.rejected = IF o.result = "submit" /\ ~submit_ok THEN @ \cup {i} ELSE @,
               !.pc = IF o.result = "submit" /\ ~submit_ok THEN "panicked" ELSE @]

\* brokers_watcher.rs:177-178: realtime_bars(...).await.expect("realtime bars
\* request failed!") fails for an order that has no usable known price
RealtimeBarsRequestFails ==
    /\ broker.pc = "in_loop"
    /\ broker.done < Len(broker.orders)
    /\ get_price(broker.orders[broker.done + 1].known_last_price,
                 [item |-> "stream_end", close |-> 0]).stream_requested
    /\ broker' = [broker EXCEPT
                    !.stream_requested = @ \cup {broker.done + 1},
                    !.pc = "panicked"]

\* brokers_watcher.rs:175, 185: the request succeeded and the stream delivers
\* no item and does not end (after market close): subscription.next().await
\* stays pending, place_orders is suspended in get_price from then on
RealtimeBarsStaySilent ==
    /\ broker.pc = "in_loop"
    /\ broker.done < Len(broker.orders)
    /\ get_price(broker.orders[broker.done + 1].known_last_price,
                 [item |-> "stream_end", close |-> 0]).stream_requested
    /\ broker' = [broker EXCEPT
                    !.stream_requested = @ \cup {broker.done + 1},
                    !.pc = "awaiting_bar"]

\* brokers_watcher.rs:164: the for loop is over
PlaceOrdersLoopEnds ==
    /\ broker.pc = "in_loop"
    /\ broker.done = Len(broker.orders)
    /\ broker' = [broker EXCEPT !.pc = "returned"]

InitBroker ==
    /\ broker = BrokerIdle
    /\ session = <<>>
    /\ planner = <<>>
    /\ pool = <<>>
    /\ tz = "UTC"
    /\ now_utc = 0
    /\ target_time_tz = 0
    /\ future_dt = NotCalled
    /\ clk_pc = "returned"
    /\ task = "Pqp"
    /\ is_manual_user_forcerun = FALSE
    /\ is_simulation = TRUE
    /\ is_run_today = FALSE
    /\ has_trading_ever_started = FALSE
    /\ loop_endtime = NoDeadline
    /\ clock_ms = 0
    /\ run_pc = "idle"
    /\ rqorders = <<>>
    /\ place_orders_calls = 0
    /\ ticks = 0
    /\ loop_start = 0
    /\ tick_started_at = 0
    /\ emails = 0
    /\ tradable_ticks = 0
    /\ tasks = <<>>
    /\ next_time = <<>>
    /\ sched_now = NotCalled
    /\ due_tasks = <<>>
    /\ wake_utc = 0
    /\ inflight = <<>>
    /\ late_wakes = 0
    /\ order_submits = 0

NextBroker ==
    \/ (PlaceOrdersCalled
          /\ UNCHANGED <<clockVars, runVars, schedVars, order_submits, session, planner, pool>>)
    \/ \E stream \in StreamResults, submit_ok \in BOOLEAN :
          (PlaceOneOrder(stream, submit_ok)
              /\ UNCHANGED <<clockVars, runVars, schedVars, order_submits, session, planner, pool>>)
    \/ (RealtimeBarsRequestFails
          /\ UNCHANGED <<clockVars, runVars, schedVars, order_submits, session, planner, pool>>)
    \/ (RealtimeBarsStaySilent
          /\ UNCHANGED <<clockVars, runVars, schedVars, order_submits, session, planner, pool>>)
    \/ (PlaceOrdersLoopEnds
          /\ UNCHANGED <<clockVars, runVars, schedVars, order_submits, session, planner, pool>>)

SpecBroker == InitBroker /\ [][NextBroker]_vars

\* the same call when every step that can be taken is taken: a call that is
\* not suspended for ever goes on
SpecBrokerLive == InitBroker /\ [][NextBroker]_vars /\ WF_vars(NextBroker)

SubmissionsOf(i) == {k \in DOMAIN broker.submitted : broker.submitted[k].order = i}

\* C21 (SpecBroker): an order whose resolved price is NaN, zero or negative, or
\* whose share count floor(targetValue / price) is <= 0, is skipped: it is in
\* the skipped set and no submission is made for it.
C21_NonPositivePriceSkipped ==
    \A i \in broker.price_resolved :
        LET price == broker.prices[i]
            value == broker.orders[i].pos_market_value
        IN  (\/ price.nan
             \/ price.cents <= 0
             \/ (value.num * 100) \div (value.den * price.cents) <= 0)
                => i \in broker.skipped /\ SubmissionsOf(i) = {}

\* C22 (SpecBroker): every submission of a live call is a limit order, its
\* limit is the resolved price times 1.021 (Buy) or 0.979 (Sell) rounded to
\* the cent, and its share count n is floor(targetValue / price):
\* n * price <= targetValue and targetValue - n * price < price.
C22_LimitOrderOffsetAndFloorShares ==
    \A k \in DOMAIN broker.submitted :
        LET s == broker.submitted[k]
            price == broker.prices[s.order].cents
            value == broker.orders[s.order].pos_market_value
            factor == IF s.action = "Buy" THEN 1021 ELSE 979
        IN  /\ ~broker.is_simulation
            /\ s.order_kind = "limit"
            /\ s.action = broker.orders[s.order].order_type
            /\ 1000 * s.limit - 500 <= factor * price
            /\ factor * price < 1000 * s.limit + 500
            /\ s.num_shares * price * value.den <= value.num * 100
            /\ value.num * 100 - s.num_shares * price * value.den < price * value.den

\* has the order a known price that is a number?
HasKnownPrice(order) == order.known_last_price.some /\ ~order.known_last_price.nan

\* C23 (SpecBrokerLive): an order with a known price resolves to it without a
\* stream request; an order without one resolves through the stream, a NaN
\* result skips the order; and every order for which the stream was requested
\* is eventually resolved (to the first close or to NaN): the call neither
\* crashes nor waits without end.
C23_PriceResolvedWithoutCrash ==
    /\ [](\A i \in broker.price_resolved :
            /\ HasKnownPrice(broker.orders[i]) =>
                  /\ broker.prices[i] = broker.orders[i].known_last_price
                  /\ i \notin broker.stream_requested
            /\ ~HasKnownPrice(broker.orders[i]) =>
                  /\ i \in broker.stream_requested
                  /\ broker.prices[i].nan => i \in broker.skipped)
    /\ \A i \in 1..MaxOrders :
          (i \in broker.stream_requested) ~> (i \in broker.price_resolved)

\* C25 (SpecBroker): a submission the broker rejects is an error of that one
\* order: the call does not crash on it, it goes on with the remaining orders
\* of the batch.
C25_RejectionIsPerOrderError ==
    broker.rejected # {} => broker.pc \in {"in_loop", "awaiting_bar", "returned"}

(***************************************************************************)
(* SpecDetector: the detector calls of one FastRunner session              *)
(* (get_new_transactions_pqp / get_new_transactions_ap), the cookie file   *)
(* and the response archive.  session holds the FastRunner's cookie fields,*)
(* the file on disk, the archive directory and the position of the call    *)
(* and of the analysis task it spawned.                                    *)
(***************************************************************************)
MaxDetectorCalls == 2
MaxRecords == 1
MaxCookieFileWrites == 1
MaxSeconds == 1

\* Option::None of cookies and of cookies_file_last_modtime; a cookie string
\* is named by the modification time of the file version it was read from
NoCookie == 0
NoModtime == 0

\* Response bodies.  short: body_text.len() < 1000; subscription, captcha,
\* paywalled_false: the body contains "Subscription is required", "captcha.js",
\* "\"isPaywalled\":false"; json: serde_json::from_str succeeds; records: the
\* transactions (history) or tag items (articles) of the parsed body; events:
\* the events the date filter of the function builds from them.
Body(short, subscription, captcha, paywalled_false, json, records, events) ==
    [short |-> short, subscription |-> subscription, captcha |-> captcha,
     paywalled_false |-> paywalled_false, json |-> json,
     records |-> records, events |-> events]

NoBody == Body(TRUE, FALSE, FALSE, FALSE, FALSE, 0, <<>>)

\* bodies of the transaction-history endpoint
HistoryBodies ==
    {Body(TRUE, TRUE, FALSE, FALSE, FALSE, 0, <<>>),      \* short page with the subscription marker
     Body(TRUE, FALSE, TRUE, FALSE, FALSE, 0, <<>>),      \* short page with the captcha marker
     Body(FALSE, TRUE, FALSE, FALSE, FALSE, 0, <<>>),     \* long page with the subscription marker
     Body(TRUE, FALSE, FALSE, FALSE, FALSE, 0, <<>>)}     \* short text that is not the expected JSON
    \cup {Body(n = 0, FALSE, FALSE, FALSE, TRUE, n, Events(b, s)) :
            n \in 0..MaxRecords, b \in 0..MaxRecords, s \in 0..MaxRecords}

\* bodies of an articles endpoint (AP articles, PQP analysis)
ArticleBodies ==
    {Body(FALSE, FALSE, FALSE, FALSE, TRUE, 0, <<>>),     \* paywalled articles
     Body(TRUE, FALSE, TRUE, FALSE, FALSE, 0, <<>>),      \* captcha page
     Body(FALSE, FALSE, TRUE, TRUE, TRUE, 0, <<>>),       \* both markers
     Body(FALSE, FALSE, FALSE, TRUE, FALSE, 0, <<>>)}     \* marker present, not the expected JSON
    \cup {Body(FALSE, FALSE, FALSE, TRUE, TRUE, n, Events(b, 0)) :
            n \in 0..MaxRecords, b \in 0..MaxRecords}

\* a parsed body cannot yield more events than it has records
WellFormed(body) == Len(body.events) <= body.records

\* fast_runner.rs:314-327: what get_new_transactions_pqp does with the body
classify_history(body) ==
    IF body.short /\ body.subscription THEN "AuthExpired"
    ELSE IF body.short /\ body.captcha THEN "Blocked"
    ELSE IF ~body.json THEN "MalformedResponse"
    ELSE "Parsed"

\* fast_runner.rs:497-506 / 715-724: what the articles functions do with it
classify_articles(body) ==
    IF ~body.paywalled_false THEN "AuthExpired"
    ELSE IF body.captcha THEN "Blocked"
    ELSE IF ~body.json THEN "MalformedResponse"
    ELSE "Parsed"

classify(detector, body) ==
    IF detector = "Pqp" THEN classify_history(body) ELSE classify_articles(body)

NoAnalysis == [pc |-> "none", body |-> NoBody, class |-> "none", events |-> <<>>]

\* A plausible variant: a new FastRunner takes its cookie for working.
SessionNew_surely_working(detector) ==
    [detector |-> detector,
     cookies |-> NoCookie,
     cookies_file_last_modtime |-> NoModtime,
     m_is_cookies_surely_working |-> TRUE,
     file_modtime |-> 1,
     sec |-> 0,
     archive |-> {},
     pc |-> "idle",
     calls |-> 0,
     stat_done |-> FALSE,
     read_done |-> FALSE,
     used_cookie |-> NoCookie,
     file_modtime_at_call |-> 1,
     prev_file_modtime_at_call |-> 1,
     prev_cookies |-> NoCookie,
     prev_flag |-> FALSE,
     body |-> NoBody,
     class |-> "none",
     primary_events |-> <<>>,
     analysis |-> NoAnalysis,
     result |-> <<>>]

\* FastRunner::new(): the cookie cache is empty, the flag false
SessionNew(detector) ==
    [detector |-> detector,
     cookies |-> NoCookie,
     cookies_file_last_modtime |-> NoModtime,
     m_is_cookies_surely_working |-> FALSE,
     file_modtime |-> 1,
     sec |-> 0,
     archive |-> {},
     pc |-> "idle",
     calls |-> 0,
     stat_done |-> FALSE,
     read_done |-> FALSE,
     used_cookie |-> NoCookie,
     file_modtime_at_call |-> 1,
     prev_file_modtime_at_call |-> 1,
     prev_cookies |-> NoCookie,
     prev_flag |-> FALSE,
     body |-> NoBody,
     class |-> "none",
     primary_events |-> <<>>,
     analysis |-> NoAnalysis,
     result |-> <<>>]

\* A plausible variant: the file is read again whenever it is looked at.
ensure_cookies_loaded_always_reads(s) ==
    IF s.m_is_cookies_surely_working THEN s
    ELSE [s EXCEPT !.stat_done = TRUE,
                   !.read_done = TRUE,
                   !.cookies = s.file_modtime,
                   !.cookies_file_last_modtime = s.file_modtime]

\* A plausible variant: a cookie that is cached is never read again.
ensure_cookies_loaded_only_once(s) ==
    IF s.m_is_cookies_surely_working THEN s
    ELSE LET need_reload == s.cookies = NoCookie
         IN  [s EXCEPT !.stat_done = TRUE,
                       !.read_done = need_reload,
                       !.cookies = IF need_reload THEN s.file_modtime ELSE @,
                       !.cookies_file_last_modtime =
                           IF need_reload THEN s.file_modtime ELSE @]

\* fast_runner.rs:644-661
ensure_cookies_loaded(s) ==
    IF s.m_is_cookies_surely_working THEN s
    ELSE LET file_modified_time == s.file_modtime
             need_reload == \/ s.cookies = NoCookie
                            \/ s.cookies_file_last_modtime = NoModtime
                            \/ s.cookies_file_last_modtime # file_modified_time
         IN  [s EXCEPT !.stat_done = TRUE,
                       !.read_done = need_reload,
                       !.cookies = IF need_reload THEN file_modified_time ELSE @,
                       !.cookies_file_last_modtime =
                           IF need_reload THEN file_modified_time ELSE @]

\* fast_runner.rs:688-692: the file name is the prefix and Local::now() at a
\* resolution of one second; fs::write replaces a file of the same name
save_response_file(archive, prefix, sec, call) ==
    {f \in archive : ~(f.prefix = prefix /\ f.sec = sec)}
        \cup {[prefix |-> prefix, sec |-> sec, call |-> call]}

Prefix(detector) == IF detector = "Pqp" THEN "fast_run_pqp_portfhist_src" ELSE "fast_run_ap_src"

\* fast_runner.rs:279-309 / 472-492: ensure_cookies_loaded, the flag reset,
\* the spawn of the analysis task (PQP) and the GET, up to the body text.
\* fetch_ok is whether send() and text() returned Ok; secs is by how much the
\* second of Local::now() has moved on since the previous call.
DetectorCallStarts(body, fetch_ok, secs) ==
    /\ session.pc \in {"idle", "returned"}
    /\ session.calls < MaxDetectorCalls
    /\ session.analysis.pc \in {"none", "done", "panicked"}
    /\ session.sec + secs <= MaxSeconds
    /\ LET s0 == [session EXCEPT
                     !.calls = @ + 1,
                     !.sec = @ + secs,
                     !.stat_done = FALSE,
                     !.read_done = FALSE,
                     !.file_modtime_at_call = session.file_modtime,
                     !.prev_file_modtime_at_call = session.file_modtime_at_call,
                     !.prev_cookies = session.cookies,
                     !.prev_flag = session.m_is_cookies_surely_working,
                     !.class = "none",
                     !.primary_events = <<>>,
                     !.result = <<>>]
           s1 == ensure_cookies_loaded(s0)
       IN  session' = [s1 EXCEPT
               !.m_is_cookies_surely_working = FALSE,
               !.analysis = IF s1.detector = "Pqp"
                            THEN [NoAnalysis EXCEPT !.pc = "spawned"]
                            ELSE NoAnalysis,
               !.used_cookie = s1.cookies,
               !.body = IF fetch_ok THEN body ELSE NoBody,
               !.pc = IF fetch_ok THEN "fetched" ELSE "panicked"]

\* fast_runner.rs:312 / 495: save_response_file(...).await; write_ok is
\* whether tokio::fs::write returned Ok
SaveResponse(write_ok) ==
    /\ session.pc = "fetched"
    /\ session' = [session EXCEPT
           !.archive = IF write_ok
                       THEN save_response_file(@, Prefix(session.detector), session.sec,
                                               session.calls)
                       ELSE @,
           !.pc = IF write_ok THEN "saved" ELSE "panicked"]

\* A plausible variant: the flag is set only when an event matched the date.
FlagAfterParse_events_only(body) == body.events # <<>>

\* fast_runner.rs:331-333 / 520-522
FlagAfterParse(body) == body.records >= 1

\* A plausible variant: the body is classified as soon as it is fetched.
ClassifyAndParse_before_save ==
    /\ session.pc = "fetched"
    /\ LET c == classify(session.detector, session.body)
       IN  session' = [session EXCEPT
               !.class = c,
               !.m_is_cookies_surely_working =
                   IF c = "Parsed" THEN FlagAfterParse(session.body) ELSE @,
               !.primary_events = IF c = "Parsed" THEN session.body.events ELSE <<>>,
               !.result = IF c = "Parsed" /\ session.detector = "Ap"
                          THEN session.body.events ELSE <<>>,
               !.pc = IF c = "MalformedResponse" THEN "panicked"
                      ELSE IF c = "Parsed" /\ session.detector = "Pqp" THEN "merge"
                      ELSE "returned"]

\* fast_runner.rs:314-386 / 497-579: the marker checks (return the date and an
\* empty list), serde_json::from_str(...).expect(...), the flag, the date
\* filter; a PQP call that parsed its response goes on to lines 388-397
ClassifyAndParse ==
    /\ session.pc = "saved"
    /\ LET c == classify(session.detector, session.body)
       IN  session' = [session EXCEPT
               !.class = c,
               !.m_is_cookies_surely_working =
                   IF c = "Parsed" THEN FlagAfterParse(session.body) ELSE @,
               !.primary_events = IF c = "Parsed" THEN session.body.events ELSE <<>>,
               !.result = IF c = "Parsed" /\ session.detector = "Ap"
                          THEN session.body.events ELSE <<>>,
               !.pc = IF c = "MalformedResponse" THEN "panicked"
                      ELSE IF c = "Parsed" /\ session.detector = "Pqp" THEN "merge"
                      ELSE "returned"]

\* A plausible variant: the analysis events are appended to the primary's.
MergeResult_additive(primary, join_ok, secondary) ==
    IF join_ok THEN primary \o secondary ELSE primary

\* fast_runner.rs:388-397: the result of a call that parsed the primary
\* response, given the JoinHandle's outcome where it is awaited
MergeResult(primary, join_ok, secondary) ==
    IF primary # <<>> THEN primary
    ELSE IF join_ok THEN secondary
    ELSE primary

\* fast_runner.rs:388-397: with events from the primary the call returns them
\* at once; with none it awaits the JoinHandle of the analysis task first
MergeAndReturn ==
    /\ session.pc = "merge"
    /\ session.primary_events # <<>> \/ session.analysis.pc \in {"done", "panicked"}
    /\ session' = [session EXCEPT
           !.result = MergeResult(session.primary_events, session.analysis.pc = "done",
                                  session.analysis.events),
           !.pc = "returned"]

\* fast_runner.rs:695-711: the spawned get_new_transactions_from_analysis_pqp
\* up to the body text
AnalysisFetches(body, fetch_ok) ==
    /\ session.analysis.pc = "spawned"
    /\ session' = [session EXCEPT
           !.analysis = [NoAnalysis EXCEPT
                            !.pc = IF fetch_ok THEN "fetched" ELSE "panicked",
                            !.body = IF fetch_ok THEN body ELSE NoBody]]

\* fast_runner.rs:713
AnalysisSaves(write_ok) ==
    /\ session.analysis.pc = "fetched"
    /\ session' = [session EXCEPT
           !.archive = IF write_ok
                       THEN save_response_file(@, "fast_run_pqp_analysis_src", session.sec,
                                               session.calls)
                       ELSE @,
           !.analysis.pc = IF write_ok THEN "saved" ELSE "panicked"]

\* fast_runner.rs:715-772
AnalysisClassifies ==
    /\ session.analysis.pc = "saved"
    /\ LET c == classify_articles(session.analysis.body)
       IN  session' = [session EXCEPT
               !.analysis.class = c,
               !.analysis.events = IF c = "Parsed" THEN session.analysis.body.events ELSE <<>>,
               !.analysis.pc = IF c = "MalformedResponse" THEN "panicked" ELSE "done"]

\* the operator replaces the cookie file: new contents, new modification time
CookieFileReplaced ==
    /\ session.file_modtime <= MaxCookieFileWrites
    /\ session' = [session EXCEPT !.file_modtime = @ + 1]

InitDetector ==
    /\ \E detector \in {"Pqp", "Ap"} : session = SessionNew(detector)
    /\ broker = <<>>
    /\ planner = <<>>
    /\ pool = <<>>
    /\ tz = "UTC"
    /\ now_utc = 0
    /\ target_time_tz = 0
    /\ future_dt = NotCalled
    /\ clk_pc = "returned"
    /\ task = "Pqp"
    /\ is_manual_user_forcerun = FALSE
    /\ is_simulation = TRUE
    /\ is_run_today = FALSE
    /\ has_trading_ever_started = FALSE
    /\ loop_endtime = NoDeadline
    /\ clock_ms = 0
    /\ run_pc = "idle"
    /\ rqorders = <<>>
    /\ place_orders_calls = 0
    /\ ticks = 0
    /\ loop_start = 0
    /\ tick_started_at = 0
    /\ emails = 0
    /\ tradable_ticks = 0
    /\ tasks = <<>>
    /\ next_time = <<>>
    /\ sched_now = NotCalled
    /\ due_tasks = <<>>
    /\ wake_utc = 0
    /\ inflight = <<>>
    /\ late_wakes = 0
    /\ order_submits = 0

NextDetector ==
    \/ \E body \in HistoryBodies \cup ArticleBodies, fetch_ok \in BOOLEAN, secs \in 0..1 :
          /\ WellFormed(body)
          /\ body \in (IF session.detector = "Pqp" THEN HistoryBodies ELSE ArticleBodies)
          /\ DetectorCallStarts(body, fetch_ok, secs)
          /\ UNCHANGED <<clockVars, runVars, schedVars, order_submits, broker, planner, pool>>
    \/ \E write_ok \in BOOLEAN :
          (SaveResponse(write_ok)
              /\ UNCHANGED <<clockVars, runVars, schedVars, order_submits, broker, planner, pool>>)
    \/ (ClassifyAndParse
          /\ UNCHANGED <<clockVars, runVars, schedVars, order_submits, broker, planner, pool>>)
    \/ (MergeAndReturn
          /\ UNCHANGED <<clockVars, runVars, schedVars, order_submits, broker, planner, pool>>)
    \/ \E body \in ArticleBodies, fetch_ok \in BOOLEAN :
          /\ WellFormed(body)
          /\ AnalysisFetches(body, fetch_ok)
          /\ UNCHANGED <<clockVars, runVars, schedVars, order_submits, broker, planner, pool>>
    \/ \E write_ok \in BOOLEAN :
          (AnalysisSaves(write_ok)
              /\ UNCHANGED <<clockVars, runVars, schedVars, order_submits, broker, planner, pool>>)
    \/ (AnalysisClassifies
          /\ UNCHANGED <<clockVars, runVars, schedVars, order_submits, broker, planner, pool>>)
    \/ (CookieFileReplaced
          /\ UNCHANGED <<clockVars, runVars, schedVars, order_submits, broker, planner, pool>>)

SpecDetector == InitDetector /\ [][NextDetector]_vars

(***************************************************************************)
(* SpecCookieRefresh: the session of SpecDetector while the site does not  *)
(* accept the cookie: every response of the detector's own endpoint is a   *)
(* page that the detector takes for AuthExpired or Blocked.                *)
(***************************************************************************)
RejectedBodies(detector) ==
    {body \in (IF detector = "Pqp" THEN HistoryBodies ELSE ArticleBodies) :
        classify(detector, body) \in {"AuthExpired", "Blocked"}}

NextCookieRefresh ==
    \/ \E body \in RejectedBodies(session.detector), fetch_ok \in BOOLEAN, secs \in 0..1 :
          /\ DetectorCallStarts(body, fetch_ok, secs)
          /\ UNCHANGED <<clockVars, runVars, schedVars, order_submits, broker, planner, pool>>
    \/ \E write_ok \in BOOLEAN :
          (SaveResponse(write_ok)
              /\ UNCHANGED <<clockVars, runVars, schedVars, order_submits, broker, planner, pool>>)
    \/ (ClassifyAndParse
          /\ UNCHANGED <<clockVars, runVars, schedVars, order_submits, broker, planner, pool>>)
    \/ \E body \in ArticleBodies, fetch_ok \in BOOLEAN :
          /\ WellFormed(body)
          /\ AnalysisFetches(body, fetch_ok)
          /\ UNCHANGED <<clockVars, runVars, schedVars, order_submits, broker, planner, pool>>
    \/ \E write_ok \in BOOLEAN :
          (AnalysisSaves(write_ok)
              /\ UNCHANGED <<clockVars, runVars, schedVars, order_submits, broker, planner, pool>>)
    \/ (AnalysisClassifies
          /\ UNCHANGED <<clockVars, runVars, schedVars, order_submits, broker, planner, pool>>)
    \/ (CookieFileReplaced
          /\ UNCHANGED <<clockVars, runVars, schedVars, order_submits, broker, planner, pool>>)

SpecCookieRefresh == InitDetector /\ [][NextCookieRefresh]_vars

\* C36 (SpecCookieRefresh): a call that ends in AuthExpired or Blocked
\* returns with m_is_cookies_surely_working false, so the call after it
\* looks at the cookie file; if the file has been replaced since the failed
\* call started (new modification time), that call reads it again and makes
\* its fetch with the new contents.
C36_RefreshedCookiePickedUp ==
    /\ (session.pc = "returned" /\ session.class \in {"AuthExpired", "Blocked"}) =>
            ~session.m_is_cookies_surely_working
    /\ (session.calls >= 2 /\ session.pc # "idle") =>
            /\ ~session.prev_flag
            /\ session.stat_done
            /\ session.file_modtime_at_call # session.prev_file_modtime_at_call =>
                  /\ session.read_done
                  /\ session.cookies = session.file_modtime_at_call
                  /\ session.cookies_file_last_modtime = session.file_modtime_at_call
                  /\ session.used_cookie = session.file_modtime_at_call

\* the first call was rejected, the cookie file was replaced, and the second
\* call has made its fetch with the cookie read from the new file
C36_Witness ==
    /\ session.calls = 2
    /\ session.pc = "fetched"
    /\ session.file_modtime_at_call # session.prev_file_modtime_at_call
    /\ session.prev_cookies = session.prev_file_modtime_at_call
    /\ session.read_done
    /\ session.used_cookie = session.file_modtime_at_call

\* C37 (SpecDetector): at every moment of a session
\* m_is_cookies_surely_working implies that a cookie is cached, a cookie is
\* cached exactly when a modification time is recorded, and every call that
\* got as far as its fetch made it with a cached cookie (the expect on
\* self.cookies found Some), whatever calls and replacements of the cookie
\* file came before.
C37_CookieCachedWhenNeeded ==
    /\ session.m_is_cookies_surely_working => session.cookies # NoCookie
    /\ session.cookies # NoCookie <=> session.cookies_file_last_modtime # NoModtime
    /\ session.cookies = session.cookies_file_last_modtime
    /\ session.calls >= 1 => session.used_cookie # NoCookie

\* the second call has verified a cookie that was cached by the first call,
\* and the cookie file has been replaced since
C37_Witness ==
    /\ session.calls = 2
    /\ session.pc = "returned"
    /\ session.m_is_cookies_surely_working
    /\ ~session.read_done
    /\ session.cookies # NoCookie
    /\ session.cookies # session.file_modtime

(***************************************************************************)
(* SpecPqpFilter: the loop of get_new_transactions_pqp over the            *)
(* transactions of a parsed history response (fast_runner.rs:336-384).     *)
(* A transaction carries its id (its place in the response), action date,  *)
(* rule, action and the id of its ticker; `included` is the set of ids of  *)
(* the stocks in the response; target is pqp_json_target_date_str: the     *)
(* empty string of FastRunner::new() or the date init() would set.         *)
(***************************************************************************)
MaxTransactions == 2     \* transactions in a history response

ActionDates == {"2026-06-01", "2026-05-25"}
TargetDates == {"", "2026-06-01"}
Rules == {None, "rebalance"}
Actions == {"buy", "sell", "hold"}
TickerIds == {"t1", "t2"}

TransactionLists ==
    UNION {[1..n -> [action_date : ActionDates, rule : Rules, action : Actions,
                     ticker_id : TickerIds]] : n \in 0..MaxTransactions}

\* A plausible variant: the rule of a transaction is not looked at.
new_transaction_events_keeps_rebalance(transactions, stocks, target) ==
    LET ids == [j \in DOMAIN transactions |-> j]
        Pushed(j) == /\ transactions[j].action_date = target
                     /\ transactions[j].ticker_id \in stocks
                     /\ transactions[j].action \in {"buy", "sell"}
        kept == SelectSeq(ids, Pushed)
    IN  [i \in 1..Len(kept) |->
            [transaction_id |-> kept[i],
             order_type |-> IF transactions[kept[i]].action = "buy" THEN "Buy" ELSE "Sell",
             action_date |-> transactions[kept[i]].action_date,
             ticker |-> transactions[kept[i]].ticker_id,
             pos_weight |-> 0,
             pos_market_value |-> F64(0)]]

\* fast_runner.rs:353-384: the events pushed for the transactions, in order
new_transaction_events(transactions, stocks, target) ==
    LET ids == [j \in DOMAIN transactions |-> j]
        Pushed(j) == /\ transactions[j].action_date = target            \* 356-358
                     /\ transactions[j].rule # "rebalance"              \* 360-362
                     /\ transactions[j].ticker_id \in stocks            \* 363, 370
                     /\ transactions[j].action \in {"buy", "sell"}      \* 364-368, 370
        kept == SelectSeq(ids, Pushed)
    IN  [i \in 1..Len(kept) |->
            [transaction_id |-> kept[i],
             order_type |-> IF transactions[kept[i]].action = "buy" THEN "Buy" ELSE "Sell",
             action_date |-> transactions[kept[i]].action_date,
             ticker |-> transactions[kept[i]].ticker_id,
             pos_weight |-> 0,
             pos_market_value |-> F64(0)]]

FilterTransactions ==
    /\ session.pc = "parsed"
    /\ session' = [session EXCEPT
           !.events = new_transaction_events(session.transactions, session.included,
                                             session.target),
           !.pc = "filtered"]

InitPqpFilter ==
    /\ \E transactions \in TransactionLists, included \in SUBSET TickerIds, target \in TargetDates :
          session = [pc |-> "parsed", transactions |-> transactions, included |-> included,
                     target |-> target, events |-> <<>>]
    /\ broker = <<>>
    /\ planner = <<>>
    /\ tz = "UTC"
    /\ now_utc = 0
    /\ target_time_tz = 0
    /\ future_dt = NotCalled
    /\ clk_pc = "returned"
    /\ task = "Pqp"
    /\ is_manual_user_forcerun = FALSE
    /\ is_simulation = TRUE
    /\ is_run_today = FALSE
    /\ has_trading_ever_started = FALSE
    /\ loop_endtime = NoDeadline
    /\ clock_ms = 0
    /\ run_pc = "idle"
    /\ rqorders = <<>>
    /\ place_orders_calls = 0
    /\ ticks = 0
    /\ loop_start = 0
    /\ tick_started_at = 0
    /\ emails = 0
    /\ tradable_ticks = 0
    /\ tasks = <<>>
    /\ next_time = <<>>
    /\ sched_now = NotCalled
    /\ due_tasks = <<>>
    /\ wake_utc = 0
    /\ inflight = <<>>
    /\ late_wakes = 0
    /\ order_submits = 0
    /\ pool = <<>>

NextPqpFilter ==
    FilterTransactions
        /\ UNCHANGED <<clockVars, runVars, schedVars, order_submits, broker, planner, pool>>

SpecPqpFilter == InitPqpFilter /\ [][NextPqpFilter]_vars

\* the transaction meets the conditions of the filter
MeetsFilter(tr, stocks, target) ==
    /\ tr.action_date = target
    /\ tr.rule # "rebalance"
    /\ tr.action \in {"buy", "sell"}
    /\ tr.ticker_id \in stocks

\* C38 (SpecPqpFilter): every event built from the history response belongs
\* to a transaction of the response whose action date is the target date,
\* whose rule is not "rebalance", whose action is "buy" or "sell" (Buy and
\* Sell in the event) and whose ticker is among the included stocks, and has
\* pos_market_value 0; every such transaction has exactly one event, and the
\* events are in the order of the transactions.
C38_EventsAreTheFilteredTransactions ==
    session.pc = "filtered" =>
        LET T == session.transactions
            E == session.events
        IN  /\ \A i \in DOMAIN E :
                  /\ E[i].transaction_id \in DOMAIN T
                  /\ MeetsFilter(T[E[i].transaction_id], session.included, session.target)
                  /\ E[i].action_date = session.target
                  /\ E[i].order_type =
                        (IF T[E[i].transaction_id].action = "buy" THEN "Buy" ELSE "Sell")
                  /\ E[i].ticker = T[E[i].transaction_id].ticker_id
                  /\ E[i].pos_market_value = F64(0)
            /\ \A j \in DOMAIN T :
                  MeetsFilter(T[j], session.included, session.target) =>
                      Cardinality({i \in DOMAIN E : E[i].transaction_id = j}) = 1
            /\ \A i1, i2 \in DOMAIN E :
                  i1 < i2 => E[i1].transaction_id < E[i2].transaction_id

\* a response with a rebalance entry of the target date, which was dropped,
\* and a sell of the target date, which is the one event
C38_Witness ==
    /\ session.pc = "filtered"
    /\ Len(session.transactions) = 2
    /\ session.transactions[1].action_date = session.target
    /\ session.transactions[1].rule = "rebalance"
    /\ session.transactions[1].action = "buy"
    /\ session.transactions[1].ticker_id \in session.included
    /\ Len(session.events) = 1
    /\ session.events[1].transaction_id = 2
    /\ session.events[1].order_type = "Sell"

\* the archive file written for the current call's fetch of an endpoint
Artifact(prefix) == [prefix |-> prefix, sec |-> session.sec, call |-> session.calls]

\* C13 (SpecDetector), as stated: a call whose response is classified
\* AuthExpired, Blocked or MalformedResponse returns an empty event list.
C13_FailedResponseReturnsEmpty ==
    session.class \in {"AuthExpired", "Blocked", "MalformedResponse"} =>
        /\ session.pc = "returned"
        /\ session.result = <<>>

\* C14 (SpecDetector), as stated: on the second of two consecutive calls an
\* unchanged modification time means no re-read and the same cached cookie, a
\* changed one means a re-read and a fetch with the new contents.
C14_RereadExactlyWhenModtimeChanged ==
    (session.calls >= 2 /\ session.pc # "idle") =>
        IF session.file_modtime_at_call = session.prev_file_modtime_at_call
        THEN ~session.read_done /\ session.cookies = session.prev_cookies
        ELSE session.read_done /\ session.used_cookie = session.file_modtime_at_call

\* C14 (SpecDetector), amended: if the previous call left
\* m_is_cookies_surely_working true, the next call neither stats nor reads the
\* file and fetches with the cached cookie, whatever happened to the file;
\* otherwise it stats the file, re-reads it exactly when the modification time
\* differs from the one recorded at the last load, and fetches with the
\* contents of the file.
C14_RereadOnlyWhenUnverified ==
    (session.calls >= 2 /\ session.pc # "idle") =>
        IF session.prev_flag
        THEN /\ ~session.stat_done
             /\ ~session.read_done
             /\ session.cookies = session.prev_cookies
             /\ session.used_cookie = session.prev_cookies
        ELSE /\ session.stat_done
             /\ session.read_done <=> (session.file_modtime_at_call # session.prev_cookies)
             /\ session.cookies = session.file_modtime_at_call
             /\ session.used_cookie = session.file_modtime_at_call

\* a second call, made after a first call that verified the cookie and after
\* the cookie file was replaced, has returned without reading the file
C14_Witness ==
    /\ session.calls = 2
    /\ session.pc = "returned"
    /\ session.prev_flag
    /\ session.file_modtime_at_call # session.prev_file_modtime_at_call
    /\ ~session.stat_done
    /\ ~session.read_done
    /\ session.used_cookie = session.prev_cookies

C16_ArchivedBeforeClassified ==
    /\ session.class # "none" => Artifact(Prefix(session.detector)) \in session.archive
    /\ session.analysis.class # "none" =>
          Artifact("fast_run_pqp_analysis_src") \in session.archive

\* a call that ended in a parse failure with its response in the archive
C16_Witness ==
    /\ session.pc = "panicked"
    /\ session.class = "MalformedResponse"
    /\ Artifact(Prefix(session.detector)) \in session.archive

\* C40 (SpecDetector), as stated: the fetches of one session never overwrite
\* each other's file: when the n-th call to the detector's endpoint has saved
\* its response, the archive holds n files of that endpoint.
C40_OneArtifactPerFetch ==
    session.pc \in {"saved", "merge", "returned"} =>
        Cardinality({f \in session.archive : f.prefix = Prefix(session.detector)})
            = session.calls

\* C17 (SpecDetector): a PQP call that parsed the primary response returns
\* exactly the primary's events when there is at least one, and otherwise the
\* analysis task's events (all Buy) or nothing; never events of both.
C17_MergeReplaceIfEmpty ==
    (session.detector = "Pqp" /\ session.pc = "returned" /\ session.class = "Parsed") =>
        /\ session.primary_events # <<>> => session.result = session.primary_events
        /\ session.primary_events = <<>> =>
              /\ session.result =
                    (IF session.analysis.pc = "done" THEN session.analysis.events ELSE <<>>)
              /\ \A i \in DOMAIN session.result : session.result[i].order_type = "Buy"

\* a PQP call whose primary response had no event of the target date and that
\* returned the analysis task's events
C17_Witness ==
    /\ session.detector = "Pqp"
    /\ session.pc = "returned"
    /\ session.class = "Parsed"
    /\ session.primary_events = <<>>
    /\ session.analysis.events # <<>>
    /\ session.result = session.analysis.events

(***************************************************************************)
(* SpecPlan: FastRunner::pqp_ap_calculate_dates_and_pv and the position    *)
(* sizers.  A date is its number of days since 2026-01-01; planner holds   *)
(* the date and PV fields of one FastRunner and the events it has sized.   *)
(***************************************************************************)
\* FastRunner::init() awaited: the dates and PVs are calculated
CalculateDatesAndPv ==
    /\ planner.pc = "new"
    /\ planner' = [pqp_ap_calculate_dates_and_pv(planner) EXCEPT !.pc = "planned"]

\* fast_runner.rs:451 / 622: a tick sizes the events it detected with the PV
\* fields the FastRunner has at that time
SizeEvents(tk, events) ==
    /\ planner.pc \in {"new", "planned"}
    /\ planner' = [planner EXCEPT
           !.pc = "sized",
           !.sized_by = tk,
           !.events = IF tk = "Pqp"
                      THEN determine_position_market_values_pqp_gyantal(
                               events, planner.pqp_buy_pv, planner.pqp_sell_pv)
                      ELSE determine_position_market_values_ap_gyantal(
                               events, planner.ap_buy_pv)]

InitPlan ==
    /\ \E today \in Dates : planner = PlanNew(today)
    /\ pool = <<>>
    /\ broker = <<>>
    /\ session = <<>>
    /\ tz = "UTC"
    /\ now_utc = 0
    /\ target_time_tz = 0
    /\ future_dt = NotCalled
    /\ clk_pc = "returned"
    /\ task = "Pqp"
    /\ is_manual_user_forcerun = FALSE
    /\ is_simulation = TRUE
    /\ is_run_today = FALSE
    /\ has_trading_ever_started = FALSE
    /\ loop_endtime = NoDeadline
    /\ clock_ms = 0
    /\ run_pc = "idle"
    /\ rqorders = <<>>
    /\ place_orders_calls = 0
    /\ ticks = 0
    /\ loop_start = 0
    /\ tick_started_at = 0
    /\ emails = 0
    /\ tradable_ticks = 0
    /\ tasks = <<>>
    /\ next_time = <<>>
    /\ sched_now = NotCalled
    /\ due_tasks = <<>>
    /\ wake_utc = 0
    /\ inflight = <<>>
    /\ late_wakes = 0
    /\ order_submits = 0

NextPlan ==
    \/ (CalculateDatesAndPv
          /\ UNCHANGED <<clockVars, runVars, schedVars, order_submits, broker, session, pool>>)
    \/ \E tk \in {"Pqp", "Ap"} : \E events \in DetectorResults("Pqp") :
          (SizeEvents(tk, events)
              /\ UNCHANGED <<clockVars, runVars, schedVars, order_submits, broker, session, pool>>)

SpecPlan == InitPlan /\ [][NextPlan]_vars

\* C18 (SpecPlan): the AP target date is the 1st (day < 15) or the 15th
\* (day >= 15) of the month of today, moved to the Monday after it when that
\* day is a Saturday (+2) or a Sunday (+1); it is never a Saturday or Sunday.
C18_ApTargetDateRolledToMonday ==
    planner.ap_json_target_date # NoDate =>
        LET now == planner.now_utc
            target == planner.ap_json_target_date
            base == Ymd(month(now), IF day(now) < 15 THEN 1 ELSE 15)
        IN  /\ weekday(base) \notin {Sat, Sun} => target = base
            /\ weekday(base) = Sat => target = base + 2 /\ weekday(target) = Mon
            /\ weekday(base) = Sun => target = base + 1 /\ weekday(target) = Mon
            /\ weekday(target) \notin {Sat, Sun}
            /\ month(target) = month(now)

\* the dates were calculated early in a month whose 1st is a Saturday: the
\* target is the 3rd, a Monday
C18_Witness ==
    /\ planner.pc = "planned"
    /\ day(planner.now_utc) < 15
    /\ weekday(Ymd(month(planner.now_utc), 1)) = Sat
    /\ day(planner.ap_json_target_date) = 3
    /\ weekday(planner.ap_json_target_date) = Mon

\* C20 (SpecPlan): every sized buy event carries buy capital / b and every
\* sized sell event sell capital / s (b, s the numbers of buy and sell events
\* of the list); a side without events produces no error, and under the AP
\* sizer a sell event carries 0.
C20_CapitalSplitEvenly ==
    planner.pc = "sized" =>
        LET b == Cardinality({i \in DOMAIN planner.events : planner.events[i].order_type = "Buy"})
            s == Cardinality({i \in DOMAIN planner.events : planner.events[i].order_type = "Sell"})
            buy_pv == IF planner.sized_by = "Pqp" THEN planner.pqp_buy_pv ELSE planner.ap_buy_pv
            sell_pv == IF planner.sized_by = "Pqp" THEN planner.pqp_sell_pv ELSE 0
        IN  \A i \in DOMAIN planner.events :
                LET v == planner.events[i].pos_market_value
                IN  /\ v.den >= 1
                    /\ planner.events[i].order_type = "Buy" => v.num * b = buy_pv * v.den
                    /\ planner.events[i].order_type = "Sell" => v.num * s = sell_pv * v.den

\* 70000 of buy capital and three buy events, no sell event: 70000/3 each
C20_Witness ==
    /\ planner.pc = "sized"
    /\ planner.sized_by = "Pqp"
    /\ planner.pqp_buy_pv = 70000
    /\ Len(planner.events) = 3
    /\ \A i \in DOMAIN planner.events :
          /\ planner.events[i].order_type = "Buy"
          /\ planner.events[i].pos_market_value = [num |-> 70000, den |-> 3]

(***************************************************************************)
(* SpecGateway: RQ_BROKERS_WATCHER from BrokersWatcher::new() on: init()   *)
(* at the start of main, place_orders() of the runs the scheduler spawns   *)
(* afterwards, exit() at the end of main.  pool holds the Vec of gateways  *)
(* behind its std Mutex, every gateway behind its own, and the position of *)
(* every operation.  Rust's gateways[0] (dcmain) is gateways[1] here and   *)
(* gateways[1] (gyantal) is gateways[2].                                   *)
(***************************************************************************)
MaxCallers == 2      \* runs that call place_orders

Callers == 1..MaxCallers

\* gateway.rs:18-20: Gateway::new; last_op is the latest operation on the gateway
Gateway_new == [ib_client |-> FALSE, last_op |-> "new", poisoned |-> FALSE]

\* A plausible variant: the handle is stored whatever connect returned.
Gateway_init_always_some(gw, connect_ok) == [gw EXCEPT !.ib_client = TRUE]

\* gateway.rs:22-51: Gateway::init; connect_ok is whether
\* Client::connect_with_options(..).await returned Ok
Gateway_init(gw, connect_ok) == [gw EXCEPT !.ib_client = IF connect_ok THEN TRUE ELSE @]

\* gateway.rs:53-57: Gateway::exit
Gateway_exit(gw) == [gw EXCEPT !.ib_client = FALSE]

\* brokers_watcher.rs:38-40: BrokersWatcher::new, and nothing called yet
PoolNew ==
    [gateways |-> <<>>, poisoned |-> FALSE, holder |-> "none",
     init_pc |-> "not_called", local |-> <<>>,
     exit_pc |-> "not_called", exited |-> <<>>,
     calls |-> [c \in Callers |-> [pc |-> "idle", unavailable |-> FALSE]]]

\* brokers_watcher.rs:67-70: init takes the pool lock, builds gateway0 and
\* starts its connect
InitLocksPool ==
    /\ pool.init_pc = "not_called"
    /\ pool.holder = "none"
    /\ pool' = [pool EXCEPT !.holder = "init",
                            !.local = <<Gateway_new>>,
                            !.init_pc = "connecting0"]

\* brokers_watcher.rs:71-77: gateway0.init().await or gateway1.init().await
\* returns and the gateway is pushed; after gateway1 the guard is dropped
ConnectReturns(connect_ok) ==
    /\ pool.init_pc \in {"connecting0", "connecting1"}
    /\ LET gw == [Gateway_init(pool.local[1], connect_ok)
                     EXCEPT !.last_op = IF connect_ok THEN "init_ok" ELSE "init_err"]
       IN  pool' = IF pool.init_pc = "connecting0"
                   THEN [pool EXCEPT !.gateways = Append(@, gw),
                                     !.local = <<Gateway_new>>,
                                     !.init_pc = "connecting1"]
                   ELSE [pool EXCEPT !.gateways = Append(@, gw),
                                     !.local = <<>>,
                                     !.holder = "none",
                                     !.init_pc = "returned"]

\* robo_trader.rs:24-30, brokers_watcher.rs:91-95: a run calls place_orders;
\* main starts the scheduler after init() has returned
PoolPlaceOrdersCalled(c, no_orders) ==
    /\ pool.init_pc = "returned"
    /\ pool.calls[c].pc = "idle"
    /\ pool' = [pool EXCEPT !.calls[c].pc = IF no_orders THEN "returned" ELSE "get_gyantal"]

\* brokers_watcher.rs:97-105: one of the two blocks
\*     { let gateways = self.gateways.lock().unwrap();
\*       gateways[i].lock().unwrap().ib_client.as_ref().cloned().expect(..) }
\* It has no await: it runs as one step once the pool lock is free.  A panic
\* inside it unwinds while the pool guard is alive, and when it is the
\* expect() the gateway guard too: std::sync::Mutex marks them poisoned.
GetHandle(c) ==
    /\ pool.calls[c].pc \in {"get_gyantal", "get_dcmain"}
    /\ pool.holder = "none"
    /\ LET i == IF pool.calls[c].pc = "get_gyantal" THEN 2 ELSE 1
       IN  pool' =
             IF pool.poisoned
             THEN [pool EXCEPT !.calls[c].pc = "panicked"]
             ELSE IF i > Len(pool.gateways)            \* index out of bounds
             THEN [pool EXCEPT !.calls[c].pc = "panicked",
                               !.calls[c].unavailable = TRUE,
                               !.poisoned = TRUE]
             ELSE IF pool.gateways[i].poisoned
             THEN [pool EXCEPT !.calls[c].pc = "panicked",
                               !.poisoned = TRUE]
             ELSE IF ~pool.gateways[i].ib_client       \* "ib_client is not initialized"
             THEN [pool EXCEPT !.calls[c].pc = "panicked",
                               !.calls[c].unavailable = TRUE,
                               !.poisoned = TRUE,
                               !.gateways[i].poisoned = TRUE]
             ELSE [pool EXCEPT !.calls[c].pc = IF i = 2 THEN "get_dcmain" ELSE "in_loop"]

\* brokers_watcher.rs:115-164: the order loop with its awaited price streams
\* and submissions returns, or one of its expect()s panics; no guard is alive
OrderLoopEnds(c, ok) ==
    /\ pool.calls[c].pc = "in_loop"
    /\ pool' = [pool EXCEPT !.calls[c].pc = IF ok THEN "returned" ELSE "panicked"]

\* brokers_watcher.rs:80-86: BrokersWatcher::exit, which main calls after
\* init.  Gateway::exit awaits nothing, so `gateway.lock().unwrap().exit().await`
\* never suspends and exit runs as one step once the pool lock is free: every
\* gateway is exited, then clear() drops them (exited keeps what they were).
\* self.gateways.lock().unwrap() panics on a poisoned pool; a gateway is
\* only ever poisoned together with the pool.
PoolExit ==
    /\ pool.init_pc = "returned"
    /\ pool.exit_pc = "not_called"
    /\ pool.holder = "none"
    /\ pool' = IF pool.poisoned
               THEN [pool EXCEPT !.exit_pc = "panicked"]
               ELSE [pool EXCEPT
                       !.exit_pc = "returned",
                       !.exited = [i \in DOMAIN pool.gateways |->
                                     [Gateway_exit(pool.gateways[i]) EXCEPT !.last_op = "exit"]],
                       !.gateways = <<>>]

InitGateway ==
    /\ pool = PoolNew
    /\ broker = <<>>
    /\ session = <<>>
    /\ planner = <<>>
    /\ tz = "UTC"
    /\ now_utc = 0
    /\ target_time_tz = 0
    /\ future_dt = NotCalled
    /\ clk_pc = "returned"
    /\ task = "Pqp"
    /\ is_manual_user_forcerun = FALSE
    /\ is_simulation = TRUE
    /\ is_run_today = FALSE
    /\ has_trading_ever_started = FALSE
    /\ loop_endtime = NoDeadline
    /\ clock_ms = 0
    /\ run_pc = "idle"
    /\ rqorders = <<>>
    /\ place_orders_calls = 0
    /\ ticks = 0
    /\ loop_start = 0
    /\ tick_started_at = 0
    /\ emails = 0
    /\ tradable_ticks = 0
    /\ tasks = <<>>
    /\ next_time = <<>>
    /\ sched_now = NotCalled
    /\ due_tasks = <<>>
    /\ wake_utc = 0
    /\ inflight = <<>>
    /\ late_wakes = 0
    /\ order_submits = 0

NextGateway ==
    \/ (InitLocksPool
          /\ UNCHANGED <<clockVars, runVars, schedVars, order_submits, broker, session, planner>>)
    \/ \E connect_ok \in BOOLEAN :
          (ConnectReturns(connect_ok)
              /\ UNCHANGED <<clockVars, runVars, schedVars, order_submits, broker, session, planner>>)
    \/ \E c \in Callers, no_orders \in BOOLEAN :
          (PoolPlaceOrdersCalled(c, no_orders)
              /\ UNCHANGED <<clockVars, runVars, schedVars, order_submits, broker, session, planner>>)
    \/ \E c \in Callers :
          (GetHandle(c)
              /\ UNCHANGED <<clockVars, runVars, schedVars, order_submits, broker, session, planner>>)
    \/ \E c \in Callers, ok \in BOOLEAN :
          (OrderLoopEnds(c, ok)
              /\ UNCHANGED <<clockVars, runVars, schedVars, order_submits, broker, session, planner>>)
    \/ (PoolExit
          /\ UNCHANGED <<clockVars, runVars, schedVars, order_submits, broker, session, planner>>)

SpecGateway == InitGateway /\ [][NextGateway]_vars

\* C26 (SpecGateway): a place_orders call that finds a handle absent (None
\* after a failed connect, or no gateway in the pool after exit) does not
\* crash, and the pool stays usable for later calls (its lock is not poisoned).
C26_ConnectionUnavailableRecoverable ==
    /\ ~pool.poisoned
    /\ \A c \in Callers : pool.calls[c].unavailable => pool.calls[c].pc # "panicked"

\* C29 (SpecGateway): no operation is at an awaited network call while it
\* holds the pool lock: init does not hold it while a connect is awaited (the
\* order loop of place_orders holds no lock).
C29_NoLockAcrossNetworkAwait ==
    pool.init_pc \in {"connecting0", "connecting1"} => pool.holder # "init"

AllGateways ==
    {pool.gateways[i] : i \in DOMAIN pool.gateways}
        \cup {pool.local[i] : i \in DOMAIN pool.local}
        \cup {pool.exited[i] : i \in DOMAIN pool.exited}

\* C30 (SpecGateway): a gateway's handle is Some exactly when the latest
\* operation on it is an init whose connect succeeded: it is None after new,
\* after a failed connect and after exit; and after BrokersWatcher::exit has
\* returned the pool is empty.
C30_HandleSomeOnlyWhileConnected ==
    /\ \A gw \in AllGateways : gw.ib_client <=> gw.last_op = "init_ok"
    /\ pool.exit_pc = "returned" => pool.gateways = <<>>

\* init has returned with one gateway connected and one whose connect failed
C30_Witness ==
    /\ pool.init_pc = "returned"
    /\ pool.exit_pc = "not_called"
    /\ Len(pool.gateways) = 2
    /\ pool.gateways[1].ib_client
    /\ pool.gateways[2].last_op = "init_err"
    /\ ~pool.gateways[2].ib_client

====
